---- MODULE Spec2Model ----
(***************************************************************************)
(* Vigil ML layer: the routing optimizer (src/routing.py), the latency     *)
(* forecaster, the explanation generator and the decision orchestrator     *)
(* (src/predict.py) and the POST /predict handler (api/main.py).           *)
(*                                                                         *)
(* Numbers.  Python floats are modelled by exact integers and rationals:   *)
(*   - a latency is a whole number of milliseconds;                        *)
(*   - a failure probability p is the integer p * ProbScale (tenths);      *)
(*   - a weight w is the integer w * WeightScale (tenths);                 *)
(*   - a cost score is the exact fraction [num, den], den > 0.             *)
(* Python dicts keep insertion order; a dict is a sequence of <<key,       *)
(* value>> pairs with distinct keys.                                       *)
(*                                                                         *)
(* The feature pipeline (src/features.py).  A DataFrame is the sequence of *)
(* its columns, <<name, cells>> pairs in column order, every column        *)
(* holding one cell per row.  A cell is a record [t, n, d, s]: a number    *)
(* n/d in lowest terms (t = "num"), a null (NaN / None, t = "nan"), a      *)
(* Python int (t = "int"), a text (t = "str") or a pandas Timestamp, n     *)
(* minutes after a base instant (t = "datetime").  A rolling_std cell      *)
(* holds the exact square of the standard deviation.                       *)
(***************************************************************************)
EXTENDS Integers, Sequences, FiniteSets, TLC

\* ---------------------------------------------------------------- bounds
\* Largest number of nodes in a candidate list / Live Feature Map.
MaxNodes == 3
\* Most rows of a raw table drawn for engineer_features.
MaxRows == 3
\* runs of poll_nodes_job in varying surroundings
MaxPolls == 3

\* ------------------------------------------------------ program constants
ProbScale == 10
WeightScale == 10
\* routing.py:31-32: opt_config.get('weight_failure', 0.7) / ('weight_latency', 0.3)
DefaultWeightFailure == 7
DefaultWeightLatency == 3
\* routing.py:62: latencies.get(n, 9999.0)
FallbackMissingPenalty == 9999
\* predict.py:117,138,141: return 9999.0
LatencyPenalty == 9999
\* predict.py:127: if prediction < 0 -> 0.0
LatencyFloor == 0
\* predict.py:130-132: elif prediction > 10000 -> 10000.0
LatencyCap == 10000
\* predict.py:237: cost_scores.get(p['node_id'], 999.0)
MissingCostDefault == 999

\* Node identifiers are opaque strings: the code only compares them for
\* equality, so the i-th candidate is given the i-th name.
NodeNames == <<"agave1", "firedancer1", "helius_devnet", "ankr_devnet", "alchemy_devnet">>
\* A key that is never in a candidate list (a stale table entry).
StaleNode == "stale_node"

\* ------------------------------------------------------------ dict helpers
Range(s) == {s[i] : i \in 1..Len(s)}
Keys(d) == {d[i][1] : i \in 1..Len(d)}
Has(d, k) == k \in Keys(d)
\* d[k]
Get(d, k) == LET i == CHOOSE j \in 1..Len(d) : d[j][1] = k IN d[i][2]
\* d.get(k, default)
GetOr(d, k, default) == IF Has(d, k) THEN Get(d, k) ELSE default
Values(d) == {d[i][2] : i \in 1..Len(d)}
\* [f(x) for x in s]
MapSeq(s, f(_)) ==
    LET R[i \in 0..Len(s)] == IF i = 0 THEN <<>> ELSE Append(R[i - 1], f(s[i]))
    IN  R[Len(s)]
\* The distinct elements of s, each at the position of its first occurrence.
RECURSIVE Dedup(_)
Dedup(s) ==
    IF Len(s) = 0 THEN <<>>
    ELSE <<Head(s)>> \o Dedup(SelectSeq(Tail(s), LAMBDA x : x # Head(s)))
MinOf(S) == CHOOSE x \in S : \A y \in S : x <= y
MaxOf(S) == CHOOSE x \in S : \A y \in S : x >= y

\* `sub in text` for two strings
Contains(text, sub) ==
    \E t \in {text} :
        \E i \in 1..(Len(t) - Len(sub) + 1) : SubSeq(t, i, i + Len(sub) - 1) = sub

\* ------------------------------------------------------------- cost values
Cost(n, d) == [num |-> n, den |-> d]
\* a < b for two fractions with positive denominators
CostLess(a, b) ==
    IF a.den = b.den THEN a.num < b.num ELSE a.num * b.den < b.num * a.den
CostEq(a, b) ==
    IF a.den = b.den THEN a.num = b.num ELSE a.num * b.den = b.num * a.den

\* ------------------------------------------------------ src/routing.py
\* Python's min(d, key=d.get): the first key in insertion order whose value
\* is not greater than any other value.
ArgMinFirst(d, Less(_, _)) ==
    LET i == CHOOSE j \in 1..Len(d) :
                /\ \A k \in 1..Len(d) : ~Less(d[k][2], d[j][2])
                /\ \A k \in 1..(j - 1) : Less(d[j][2], d[k][2])
    IN  d[i][1]

IntLess(a, b) == a < b

\* {n: f(n) for n in nodes}: one entry per distinct node, at the position
\* of its first occurrence.
DictOver(nodes, f(_)) == MapSeq(Dedup(nodes), LAMBDA n : <<n, f(n)>>)

\* no guard against equal latencies: (lat - min) / 0 raises ZeroDivisionError
TryBlockCompletes_DivByZero(failure_probs, latencies, nodes, config) ==
    /\ Len(latencies) > 0
    /\ MaxOf(Values(latencies)) # MinOf(Values(latencies))
    /\ \A i \in 1..Len(nodes) : Has(latencies, nodes[i])
    /\ \A i \in 1..Len(nodes) : Has(failure_probs, nodes[i])
    /\ config.usable

\* Whether the try block (routing.py:25-54) runs to its return without an
\* exception, for a non-empty candidate list.
TryBlockCompletes(failure_probs, latencies, nodes, config) ==
    /\ Len(latencies) > 0                          \* min() of an empty sequence: ValueError
    /\ \/ MaxOf(Values(latencies)) = MinOf(Values(latencies))
       \/ \A i \in 1..Len(nodes) : Has(latencies, nodes[i])      \* latencies[n]: KeyError
    /\ \A i \in 1..Len(nodes) : Has(failure_probs, nodes[i])     \* failure_probs[n]: KeyError
    /\ config.usable                               \* None * float: TypeError

\* routing.py:34-44; the normalized latency of n is NormNum(n) / NormDen.
NormDen(latencies) ==
    LET d == MaxOf(Values(latencies)) - MinOf(Values(latencies))
    IN  IF d = 0 THEN 1 ELSE d

NormNum(latencies, n) ==
    IF MaxOf(Values(latencies)) - MinOf(Values(latencies)) = 0
    THEN 0
    ELSE Get(latencies, n) - MinOf(Values(latencies))

CostScore_WeightsSwapped(failure_probs, latencies, config, n) ==
    Cost(config.weight_latency * Get(failure_probs, n) * NormDen(latencies)
            + config.weight_failure * ProbScale * NormNum(latencies, n),
         WeightScale * ProbScale * NormDen(latencies))

\* the latency above the minimum, not divided by the range
CostScore_Unscaled(failure_probs, latencies, config, n) ==
    Cost(config.weight_failure * Get(failure_probs, n)
            + config.weight_latency * ProbScale * NormNum(latencies, n),
         WeightScale * ProbScale)

CostScore_LatencyOnly(failure_probs, latencies, config, n) ==
    Cost(config.weight_latency * ProbScale * NormNum(latencies, n),
         WeightScale * ProbScale * NormDen(latencies))

\* routing.py:47-50
CostScore(failure_probs, latencies, config, n) ==
    Cost(config.weight_failure * Get(failure_probs, n) * NormDen(latencies)
            + config.weight_latency * ProbScale * NormNum(latencies, n),
         WeightScale * ProbScale * NormDen(latencies))

\* the last minimum instead of the first (a scan that replaces on <=)
RecommendedNode_LastMin(cost_scores) ==
    LET i == CHOOSE j \in 1..Len(cost_scores) :
                /\ \A k \in 1..Len(cost_scores) :
                       ~CostLess(cost_scores[k][2], cost_scores[j][2])
                /\ \A k \in (j + 1)..Len(cost_scores) :
                       CostLess(cost_scores[j][2], cost_scores[k][2])
    IN  cost_scores[i][1]

\* routing.py:52
RecommendedNode(cost_scores) == ArgMinFirst(cost_scores, CostLess)

\* routing.py:61
fallback_node(latencies) == ArgMinFirst(latencies, IntLess)

fallback_costs_NoPenalty(latencies, nodes) ==
    DictOver(SelectSeq(nodes, LAMBDA n : Has(latencies, n)),
             LAMBDA n : Cost(Get(latencies, n), 1))

\* routing.py:62
fallback_costs(latencies, nodes) ==
    DictOver(nodes, LAMBDA n : Cost(GetOr(latencies, n, FallbackMissingPenalty), 1))

\* routing.py:56-63, the except branch
OptimizeFallback(latencies, nodes) ==
    IF Len(latencies) = 0
    THEN [node |-> IF Len(nodes) > 0 THEN nodes[1] ELSE "no_node_available",
          cost_scores |-> <<>>, path |-> "fallback"]
    ELSE [node |-> fallback_node(latencies),
          cost_scores |-> fallback_costs(latencies, nodes),
          path |-> "fallback"]

\* optimize_routing(failure_probs, latencies, nodes, config).  `path` records
\* which return statement was taken; it is not part of the Python result.
optimize_routing(failure_probs, latencies, nodes, config) ==
    IF Len(nodes) = 0
    THEN [node |-> "no_nodes_available", cost_scores |-> <<>>, path |-> "empty"]
    ELSE IF TryBlockCompletes(failure_probs, latencies, nodes, config)
    THEN LET cost_scores ==
                 DictOver(nodes, LAMBDA n : CostScore(failure_probs, latencies, config, n))
         IN  [node |-> RecommendedNode(cost_scores),
              cost_scores |-> cost_scores, path |-> "normal"]
    ELSE OptimizeFallback(latencies, nodes)

\* ------------------------------------------------------ src/predict.py
\* What inference does on one engineered feature row (the models are opaque):
\*   infer          "ok", or the exception raised at predict.py:197-207
\*                  ("KeyError": a feature column is missing; "Exception": a
\*                  scaler or the anomaly / failure model raises)
\*   failure_prob   predict_failure_prob's result (tenths)
\*   anomaly        predict_anomaly's result
\*   latency_model  "absent" (no entry in models['latency']), "raises"
\*                  (model.predict raises) or "predicts"
\*   raw_prediction model.predict(...)[0] in ms
Row(infer, failure_prob, anomaly, latency_model, raw_prediction) ==
    [infer |-> infer, failure_prob |-> failure_prob, anomaly |-> anomaly,
     latency_model |-> latency_model, raw_prediction |-> raw_prediction]

\* a missing or failing model forecast as 0 ms instead of the penalty
forecast_latency_ZeroDefault(latency_model, raw_prediction) ==
    IF latency_model # "predicts" THEN 0
    ELSE IF raw_prediction < LatencyFloor THEN LatencyFloor
    ELSE IF raw_prediction > LatencyCap THEN LatencyCap
    ELSE raw_prediction

\* the upper sanity bound is not applied
forecast_latency_NoCap(latency_model, raw_prediction) ==
    IF latency_model # "predicts" THEN LatencyPenalty
    ELSE IF raw_prediction < LatencyFloor THEN LatencyFloor
    ELSE raw_prediction

\* forecast_latency(node_id, exog_row), predict.py:102-141
forecast_latency(latency_model, raw_prediction) ==
    IF latency_model = "absent" THEN LatencyPenalty
    ELSE IF latency_model = "raises" THEN LatencyPenalty
    ELSE IF raw_prediction < LatencyFloor THEN LatencyFloor
    ELSE IF raw_prediction > LatencyCap THEN LatencyCap
    ELSE raw_prediction

\* predict.py:211-216
pred_data(node_id, row) ==
    [node_id |-> node_id,
     failure_prob |-> row.failure_prob,
     predicted_latency_ms |-> forecast_latency(row.latency_model, row.raw_prediction),
     anomaly_detected |-> row.anomaly]

PredictNode_Uncaught(item) == <<pred_data(item[1], item[2])>>

\* One iteration of the loop at predict.py:191-222: the entries appended to
\* all_predictions for item i (none when the try block raises).
PredictNode(item) ==
    IF item[2].infer = "ok" THEN <<pred_data(item[1], item[2])>> ELSE <<>>

\* predict.py:191-222
RECURSIVE PredictLoop(_, _)
PredictLoop(engineered_data, i) ==
    IF i > Len(engineered_data) THEN <<>>
    ELSE PredictNode(engineered_data[i]) \o PredictLoop(engineered_data, i + 1)

\* predict.py:236-237
WithCost(p, cost_scores) ==
    [node_id |-> p.node_id, failure_prob |-> p.failure_prob,
     predicted_latency_ms |-> p.predicted_latency_ms,
     anomaly_detected |-> p.anomaly_detected,
     cost_score |-> GetOr(cost_scores, p.node_id, Cost(MissingCostDefault, 1))]

RecDetails_First(all_predictions, recommended_node) == <<all_predictions[1]>>

\* predict.py:239: next((p for p in all_predictions if p['node_id'] == node), {});
\* <<>> stands for the empty dict.
RecDetails(all_predictions, recommended_node) ==
    LET hits == SelectSeq(all_predictions, LAMBDA p : p.node_id = recommended_node)
    IN  IF Len(hits) = 0 THEN <<>> ELSE <<hits[1]>>

\* the first other entry, whatever its cost
NextBest_Unsorted(recommended_node, all_preds) ==
    LET others == SelectSeq(all_preds, LAMBDA p : p.node_id # recommended_node)
    IN  IF Len(others) = 0 THEN <<>> ELSE <<others[1]>>

\* predict.py:160: sorted(..., key=cost_score) is stable, so others[0] is the
\* first entry of minimal cost among the entries other than the recommended one.
NextBest(recommended_node, all_preds) ==
    LET others == SelectSeq(all_preds, LAMBDA p : p.node_id # recommended_node)
    IN  IF Len(others) = 0 THEN <<>>
        ELSE LET i == CHOOSE j \in 1..Len(others) :
                          /\ \A k \in 1..Len(others) :
                                 ~CostLess(others[k].cost_score, others[j].cost_score)
                          /\ \A k \in 1..(j - 1) :
                                 CostLess(others[j].cost_score, others[k].cost_score)
             IN  <<others[i]>>

NoExplanation ==
    [lead |-> "", node |-> "", latency |-> 0, failure_prob |-> 0,
     anomaly_warning |-> FALSE, comparison |-> <<>>]

\* generate_explanation, predict.py:143-168.  The text is kept as its parts:
\*   "<lead> <node> with <latency>ms predicted latency and <failure_prob> failure risk."
\*   [" Anomaly detected on this node."]
\*   [" <diff>ms faster than next best (<node>)."]  + the fixed router note.
generate_explanation(recommended_node, rec_pred, all_preds) ==
    LET other == NextBest(recommended_node, all_preds)
    IN  [lead |-> "Selected",
         node |-> recommended_node,
         latency |-> rec_pred.predicted_latency_ms,
         failure_prob |-> rec_pred.failure_prob,
         anomaly_warning |-> rec_pred.anomaly_detected,
         comparison |->
             IF Len(other) = 0 THEN <<>>
             ELSE <<[node |-> other[1].node_id,
                     diff |-> other[1].predicted_latency_ms
                                  - rec_pred.predicted_latency_ms]>>]

\* f"{x:.0f}" of a whole number of milliseconds, predict.py:153, 164.
FormatMs(n) == ToString(n)

\* f"{p:.2%}" of a probability kept in tenths, predict.py:153.
FormatPercent(p) == ToString((p * 100) \div ProbScale) \o ".00%"

\* predict.py:157 (the warning sign glyph is written "(!)").
AnomalyClause == " (!) Anomaly detected on this node."

\* predict.py:166
RouterNote ==
    " Note: Router applies auto-calibration (learns environment offset) and hybrid scoring (70% prediction + 30% recent actual) for final routing decision."

\* predict.py:164
ComparisonClause(c) ==
    " " \o FormatMs(c.diff) \o "ms faster than next best (" \o c.node \o ")."

\* The string generate_explanation returns, predict.py:153-168, put together
\* from the parts above; a result without prediction carries its message only.
explanation_text(e) ==
    IF e.node = "" THEN e.lead
    ELSE e.lead \o " " \o e.node \o " with " \o FormatMs(e.latency)
             \o "ms predicted latency and " \o FormatPercent(e.failure_prob)
             \o " failure risk."
             \o (IF e.anomaly_warning THEN AnomalyClause ELSE "")
             \o (IF Len(e.comparison) = 0 THEN ""
                 ELSE ComparisonClause(e.comparison[1]))
             \o RouterNote

\* A result carrying no prediction.
EmptyBundle(node, message) ==
    [recommended_node |-> node,
     explanation |-> [NoExplanation EXCEPT !.lead = message],
     rec_details |-> <<>>, all_predictions |-> <<>>,
     raised |-> FALSE, invoked |-> {}, path |-> "none"]

NoNodesAvailable_Typo ==
    EmptyBundle("no_node_available", "No nodes were available for prediction.")

\* predict.py:224-227
NoNodesAvailable ==
    EmptyBundle("no_nodes_available", "No nodes were available for prediction.")

\* get_recommendation(engineered_data), predict.py:170-243, with self.config.
\* `invoked` and `path` record which collaborators ran and the optimizer's
\* return statement; `raised` says an exception left the method.
get_recommendation(engineered_data, self_config) ==
    LET preds == PredictLoop(engineered_data, 1)
    IN  IF Len(preds) = 0 THEN NoNodesAvailable
        ELSE LET node_names == MapSeq(preds, LAMBDA p : p.node_id)
                 failure_probs == MapSeq(preds, LAMBDA p : <<p.node_id, p.failure_prob>>)
                 latencies == MapSeq(preds, LAMBDA p : <<p.node_id, p.predicted_latency_ms>>)
                 opt == optimize_routing(failure_probs, latencies, node_names, self_config)
                 all_predictions == MapSeq(preds, LAMBDA p : WithCost(p, opt.cost_scores))
                 rec_details == RecDetails(all_predictions, opt.node)
             IN  IF Len(rec_details) = 0
                 THEN \* rec_pred['failure_prob'] on {}: KeyError at predict.py:148
                      [EmptyBundle("", "") EXCEPT
                          !.raised = TRUE,
                          !.invoked = {"optimize_routing", "generate_explanation"},
                          !.path = opt.path]
                 ELSE [recommended_node |-> opt.node,
                       explanation |-> generate_explanation(opt.node, rec_details[1],
                                                           all_predictions),
                       rec_details |-> rec_details,
                       all_predictions |-> all_predictions,
                       raised |-> FALSE,
                       invoked |-> {"optimize_routing", "generate_explanation"},
                       path |-> opt.path]

\* ------------------------------------------------------ api/main.py
\* NodePrediction(**d), api/schemas.py:56-62: all five fields are required.
NodePredictionValid(d) ==
    Len(d) = 1

\* No decision bundle: the body of an error response.
NoBundle == EmptyBundle("", "")

NoResponse == [status |-> 0, detail |-> "", body |-> NoBundle]

\* predict_routing, api/main.py:181-215, from the live feature map on.
predict_routing(live_feature_map, self_config) ==
    IF Len(live_feature_map) = 0
    THEN [status |-> 400, detail |-> "No valid engineered features generated",
          body |-> NoBundle]
    ELSE LET r == get_recommendation(live_feature_map, self_config)
         IN  IF r.raised \/ ~NodePredictionValid(r.rec_details)
             THEN [status |-> 500, detail |-> "Prediction failed", body |-> NoBundle]
             ELSE [status |-> 200, detail |-> "", body |-> r]

\* ------------------------------------------------------ src/features.py
\* ---- cells
RECURSIVE GCD(_, _)
GCD(a, b) == IF b = 0 THEN a ELSE GCD(b, a % b)
Abs(x) == IF x < 0 THEN -x ELSE x
\* the float n/d (d > 0), in lowest terms
Frac(n, d) ==
    LET g == GCD(Abs(n), d)
    IN  [t |-> "num", n |-> n \div g, d |-> d \div g, s |-> ""]
Num(n) == [t |-> "num", n |-> n, d |-> 1, s |-> ""]
NaN == [t |-> "nan", n |-> 0, d |-> 1, s |-> ""]
PyInt(n) == [t |-> "int", n |-> n, d |-> 1, s |-> ""]
Str(s) == [t |-> "str", n |-> 0, d |-> 1, s |-> s]
Datetime(k) == [t |-> "datetime", n |-> k, d |-> 1, s |-> ""]
IsNa(c) == c.t = "nan"

\* float arithmetic; an operand that is NaN gives NaN
Sub(a, b) == IF IsNa(a) \/ IsNa(b) THEN NaN ELSE Frac(a.n * b.d - b.n * a.d, a.d * b.d)
Mul(a, b) == IF IsNa(a) \/ IsNa(b) THEN NaN ELSE Frac(a.n * b.n, a.d * b.d)
\* a > b; a comparison with NaN is False
Gt(a, b) == ~IsNa(a) /\ ~IsNa(b) /\ a.n * b.d > b.n * a.d

\* ---- DataFrames
NRows(df) == IF df = <<>> THEN 0 ELSE Len(df[1][2])
\* df[name] = cells: replaces the column in place or appends a new one
SetCol(df, name, cells) ==
    IF Has(df, name)
    THEN MapSeq(df, LAMBDA p : IF p[1] = name THEN <<name, cells>> ELSE p)
    ELSE Append(df, <<name, cells>>)
\* a column holding the same cell in every row (df[name] = scalar)
Broadcast(df, cell) == MapSeq(df[1][2], LAMBDA c : cell)
\* the rows at the positions idx, in that order (index labels are not kept)
Take(df, idx) ==
    MapSeq(df, LAMBDA p : <<p[1], MapSeq(idx, LAMBDA i : p[2][i])>>)
Upto(n) == MapSeq([i \in 1..n |-> i], LAMBDA i : i)

\* ---- conversions
\* str(n) for the numeric node ids in use
IntText == <<"1", "2">>
\* Series.astype(str), cell by cell
AsStr(c) ==
    IF c.t = "str" THEN c
    ELSE IF c.t = "int" THEN Str(IntText[c.n])
    ELSE Str("None")
Digits == <<"1", "2", "3", "4", "5", "6", "7", "8", "9">>
\* the text of the instant k minutes after the base instant
TimestampText(k) == "2025-01-01 00:0" \o Digits[k] \o ":00"
Parsable(c) == c.t = "datetime" \/ (c.t = "str" /\ \E k \in 1..Len(Digits) : TimestampText(k) = c.s)
\* pd.to_datetime, cell by cell; a text that is no date raises ValueError
ToDatetime(c) ==
    IF c.t = "datetime" THEN c
    ELSE Datetime(CHOOSE k \in 1..Len(Digits) : TimestampText(k) = c.s)

\* ---- df.sort_values(by=["node_id", "timestamp"])
\* the node id texts in use, in Python's string order
IdOrder == <<"1", "2", "None", "agave1", "agave_self_hosted", "ankr_devnet", "firedancer1">>
IdRank(c) == CHOOSE i \in 1..Len(IdOrder) : IdOrder[i] = c.s
\* row j sorts before row i; rows with equal keys keep their order
SortsBefore(ids, ts, j, i) ==
    \/ IdRank(ids[j]) < IdRank(ids[i])
    \/ /\ IdRank(ids[j]) = IdRank(ids[i])
       /\ \/ ts[j].n < ts[i].n
          \/ ts[j].n = ts[i].n /\ j < i
sort_values(df) ==
    LET ids == Get(df, "node_id")
        ts  == Get(df, "timestamp")
        n   == NRows(df)
        pos == MapSeq(Upto(n), LAMBDA i :
                   1 + Cardinality({j \in 1..n : SortsBefore(ids, ts, j, i)}))
    IN  Take(df, MapSeq(Upto(n), LAMBDA k : CHOOSE i \in 1..n : pos[i] = k))

\* ---- feature_defaults, features.py:93-103
fillna(cells, value) == MapSeq(cells, LAMBDA c : IF IsNa(c) THEN value ELSE c)
RECURSIVE FillDefaults(_, _, _)
FillDefaults(df, feature_defaults, i) ==
    IF i > Len(feature_defaults) THEN df
    ELSE LET feature == feature_defaults[i][1]
             default_value == feature_defaults[i][2]
             filled == IF Has(df, feature)
                       THEN IF \E c \in Range(Get(df, feature)) : IsNa(c)
                            THEN SetCol(df, feature, fillna(Get(df, feature), default_value))
                            ELSE df
                       ELSE SetCol(df, feature, Broadcast(df, default_value))
         IN  FillDefaults(filled, feature_defaults, i + 1)

\* ---- engineer_interaction_features, features.py:12-35
\* f"{col_a}_x_{col_b}"
InteractionName(pair) == pair[1] \o "_x_" \o pair[2]
\* Series * Series raises TypeError where a text meets a non-null operand
MulRaises(a, b) ==
    \E i \in 1..Len(a) : ~IsNa(a[i]) /\ ~IsNa(b[i]) /\ (a[i].t = "str" \/ b[i].t = "str")
RECURSIVE InteractionLoop(_, _, _)
InteractionLoop(df, interaction_pairs, i) ==
    IF i > Len(interaction_pairs) THEN df
    ELSE LET pair == interaction_pairs[i]
         IN  IF Len(pair) = 2 /\ Has(df, pair[1]) /\ Has(df, pair[2])
             THEN LET col_a == Get(df, pair[1])
                      col_b == Get(df, pair[2])
                  IN  IF MulRaises(col_a, col_b)
                      THEN df     \* except Exception: logged, df as it is
                      ELSE InteractionLoop(
                               SetCol(df, InteractionName(pair),
                                      MapSeq(Upto(NRows(df)), LAMBDA r : Mul(col_a[r], col_b[r]))),
                               interaction_pairs, i + 1)
             ELSE InteractionLoop(df, interaction_pairs, i + 1)
engineer_interaction_features(df, config) ==
    InteractionLoop(df, config.interaction_pairs, 1)

\* ---- engineer_threshold_features, features.py:37-58
\* f"is_high_{col}"
ThresholdName(col) == "is_high_" \o col
\* Series > threshold raises TypeError for a threshold that is no number
GtRaises(cells, threshold_val) == threshold_val.t # "num"
RECURSIVE ThresholdLoop(_, _, _)
ThresholdLoop(df, thresholds, i) ==
    IF i > Len(thresholds) THEN df
    ELSE LET col == thresholds[i][1]
             threshold_val == thresholds[i][2]
         IN  IF Has(df, col)
             THEN IF GtRaises(Get(df, col), threshold_val)
                  THEN df     \* except Exception: logged, df as it is
                  ELSE ThresholdLoop(
                           SetCol(df, ThresholdName(col),
                                  MapSeq(Get(df, col), LAMBDA c :
                                      IF Gt(c, threshold_val) THEN Num(1) ELSE Num(0))),
                           thresholds, i + 1)
             ELSE ThresholdLoop(df, thresholds, i + 1)
engineer_threshold_features(df, config) ==
    ThresholdLoop(df, config.thresholds, 1)

\* ---- df.groupby('node_id'), features.py:128-151
Add(a, b) == Frac(a.n * b.d + b.n * a.d, a.d * b.d)
RECURSIVE SumCells(_, _)
SumCells(cells, i) == IF i > Len(cells) THEN Num(0) ELSE Add(cells[i], SumCells(cells, i + 1))
Max(a, b) == IF a >= b THEN a ELSE b

\* the rows of every node taken as one series
GroupUpTo_AllRows(ids, i) == Upto(i)

\* the positions, in frame order, of the rows of row i's node up to row i
GroupUpTo(ids, i) == SelectSeq(Upto(i), LAMBDA j : ids[j] = ids[i])

\* the difference taken the other way round
diff_Reversed(ids, v, i) ==
    LET g == GroupUpTo(ids, i)
    IN  IF Len(g) < 2 THEN NaN ELSE Sub(v[g[Len(g) - 1]], v[i])

\* grouped[metric].transform(lambda x: x.diff()) at row i
diff(ids, v, i) ==
    LET g == GroupUpTo(ids, i)
    IN  IF Len(g) < 2 THEN NaN ELSE Sub(v[i], v[g[Len(g) - 1]])

\* the non-null cells among the last `window` rows of row i's node
Observed(ids, v, i, window) ==
    LET g == GroupUpTo(ids, i)
        w == SubSeq(g, Max(1, Len(g) - window + 1), Len(g))
    IN  SelectSeq(MapSeq(w, LAMBDA j : v[j]), LAMBDA c : ~IsNa(c))

\* a mean only once the window is full (min_periods=window)
rolling_mean_FullWindow(ids, v, i, window) ==
    LET obs == Observed(ids, v, i, window)
        sum == SumCells(obs, 1)
    IN  IF Len(obs) < window THEN NaN ELSE Frac(sum.n, sum.d * Len(obs))

\* x.rolling(window=window, min_periods=1).mean() at row i
rolling_mean(ids, v, i, window) ==
    LET obs == Observed(ids, v, i, window)
        sum == SumCells(obs, 1)
    IN  IF Len(obs) < 1 THEN NaN ELSE Frac(sum.n, sum.d * Len(obs))

\* x.rolling(window=window, min_periods=1).std() at row i, squared: the
\* sample variance (ddof=1), undefined for fewer than two observations
rolling_std(ids, v, i, window) ==
    LET obs == Observed(ids, v, i, window)
        k   == Len(obs)
        sum == SumCells(obs, 1)
        sq  == SumCells(MapSeq(obs, LAMBDA c : Mul(c, c)), 1)
        num == Sub(Mul(Num(k), sq), Mul(sum, sum))
    IN  IF k < 2 THEN NaN ELSE Frac(num.n, num.d * k * (k - 1))

\* grouped[metric].shift(lag) at row i
shift(ids, v, i, lag) ==
    LET g == GroupUpTo(ids, i)
    IN  IF Len(g) > lag THEN v[g[Len(g) - lag]] ELSE NaN

TrendName(metric) == metric \o "_trend"
RollingMeanName(metric, window) == metric \o "_rolling_mean_" \o Digits[window]
RollingStdName(metric, window) == metric \o "_rolling_std_" \o Digits[window]
LagName(metric, lag) == metric \o "_lag_" \o Digits[lag]

RECURSIVE WindowLoop(_, _, _, _)
WindowLoop(df, metric, rolling_windows, i) ==
    IF i > Len(rolling_windows) THEN df
    ELSE LET window == rolling_windows[i]
             ids == Get(df, "node_id")
             v == Get(df, metric)
             with_mean == SetCol(df, RollingMeanName(metric, window),
                              MapSeq(Upto(NRows(df)), LAMBDA r : rolling_mean(ids, v, r, window)))
             with_std == SetCol(with_mean, RollingStdName(metric, window),
                              MapSeq(Upto(NRows(df)), LAMBDA r : rolling_std(ids, v, r, window)))
         IN  WindowLoop(with_std, metric, rolling_windows, i + 1)

RECURSIVE LagLoop(_, _, _, _)
LagLoop(df, metric, lag_periods, i) ==
    IF i > Len(lag_periods) THEN df
    ELSE LET lag == lag_periods[i]
             ids == Get(df, "node_id")
             v == Get(df, metric)
         IN  LagLoop(SetCol(df, LagName(metric, lag),
                            MapSeq(Upto(NRows(df)), LAMBDA r : shift(ids, v, r, lag))),
                     metric, lag_periods, i + 1)

\* features.py:130-151
RECURSIVE MetricLoop(_, _, _, _)
MetricLoop(df, all_metrics_to_process, config, i) ==
    IF i > Len(all_metrics_to_process) THEN df
    ELSE LET metric == all_metrics_to_process[i]
         IN  IF ~Has(df, metric)
             THEN MetricLoop(df, all_metrics_to_process, config, i + 1)
             ELSE LET ids == Get(df, "node_id")
                      v == Get(df, metric)
                      trended == SetCol(df, TrendName(metric),
                                     MapSeq(Upto(NRows(df)), LAMBDA r : diff(ids, v, r)))
                      rolled == WindowLoop(trended, metric, config.rolling_windows, 1)
                      lagged == LagLoop(rolled, metric, config.lag_periods, 1)
                  IN  MetricLoop(lagged, all_metrics_to_process, config, i + 1)

\* ---- engineer_features, features.py:60-172
\* features.py:117-120; list(set(...)) fixes no order, and the order only
\* decides the order of the derived columns
interaction_cols(config) ==
    MapSeq(SelectSeq(config.interaction_pairs, LAMBDA pair : Len(pair) = 2), InteractionName)
threshold_cols(config) == MapSeq(config.thresholds, LAMBDA t : ThresholdName(t[1]))
all_metrics_to_process(config) ==
    Dedup(config.metrics_to_engineer \o interaction_cols(config) \o threshold_cols(config))

\* client_type is zero-filled like a metric
metadata_cols_NoClientType == {"timestamp", "node_id"}

\* features.py:156
metadata_cols == {"timestamp", "node_id", "client_type"}

\* features.py:157-158: df[numeric_cols] = df[numeric_cols].fillna(0)
FillNumeric(df) ==
    MapSeq(df, LAMBDA p : IF p[1] \in metadata_cols THEN p ELSE <<p[1], fillna(p[2], Num(0))>>)

\* df['node_id'] = df['node_id'].astype(str), features.py:83 and 161
NodeIdAsStr(df) == SetCol(df, "node_id", MapSeq(Get(df, "node_id"), AsStr))

\* features.py:75-80
MissingRequired(df) == ~Has(df, "timestamp") \/ ~Has(df, "node_id")

\* What a call leaves behind:
\*   raised       "" or the exception that reaches the caller
\*   df           the table returned (<<>> when the call raised)
\*   raw          the caller's table after the call
\*   same_object  the table returned is the caller's own object
\*   path         "schema_error", "error" (except Exception) or "normal"
FeResult(raised, df, raw, same_object, path) ==
    [raised |-> raised, df |-> df, raw |-> raw, same_object |-> same_object, path |-> path]

\* the missing column is logged and the table handed back
OnMissingColumn_Swallowed(df) == FeResult("", df, df, TRUE, "schema_error")

\* features.py:75-80 and 166-168: KeyError, logged and re-raised
OnMissingColumn(df) == FeResult("KeyError", <<>>, df, FALSE, "schema_error")

\* a derivation error reaches the caller
OnDerivationError_Raise(df) == FeResult("ValueError", <<>>, df, FALSE, "error")

\* features.py:169-172: the error is logged and df, as it stands, returned
OnDerivationError(df) == FeResult("", df, df, TRUE, "error")

engineer_features(df, config) ==
    IF MissingRequired(df)
    THEN OnMissingColumn(df)
    ELSE LET raw1 == NodeIdAsStr(df)                                 \* 83, in place
         IN  IF \E c \in Range(Get(raw1, "timestamp")) : ~Parsable(c)
             THEN OnDerivationError(raw1)                            \* 86 raises
             ELSE LET raw2 == SetCol(raw1, "timestamp",              \* 86, in place
                                     MapSeq(Get(raw1, "timestamp"), ToDatetime))
                      sorted == sort_values(raw2)                    \* 87, a new table
                      filled == FillDefaults(sorted, config.feature_defaults, 1)
                      inter  == engineer_interaction_features(filled, config)
                      thresh == engineer_threshold_features(inter, config)
                      derived == MetricLoop(thresh, all_metrics_to_process(config), config, 1)
                  IN  FeResult("", NodeIdAsStr(FillNumeric(derived)), raw2, FALSE, "normal")

\* ---- the feature list, train.py:16-35 and predict.py:71-80
\* str.startswith
StartsWith(f, target) == Len(f) >= Len(target) /\ SubSeq(f, 1, Len(target)) = target
\* train.py:19-20: config['metadata_columns'] and config['target_columns']
MetadataColumns == {"timestamp", "node_id", "client_type"}
TargetColumns == {"failure_label"}
\* get_feature_columns(df, config): the engineered columns that are neither
\* metadata nor targets nor the latency target (sorted in the code; the
\* order of the list plays no part in the filter)
get_feature_columns(df, target) ==
    SelectSeq(MapSeq(df, LAMBDA p : p[1]),
              LAMBDA col : col \notin MetadataColumns \cup TargetColumns \cup {target})

\* get_exog_feature_list(), predict.py:74-80
get_exog_feature_list(all_features, target) ==
    SelectSeq(all_features, LAMBDA f : ~StartsWith(f, target))

\* ------------------------------------- api/main.py, the request body
\* NodeMetric, api/schemas.py:6-16, of the sample taken at `minute`: node_id
\* and node_name are Optional and default to None (the cell NaN); of the
\* Optional metrics cpu_usage is kept; is_healthy defaults to 1.
NodeMetric(minute, node_id, node_name) ==
    [timestamp |-> Datetime(minute), node_id |-> node_id, node_name |-> node_name,
     cpu_usage |-> Num(50), is_healthy |-> PyInt(1)]

\* pd.DataFrame([metric.model_dump() for metric in batch.metrics]),
\* main.py:140-141: one column per field, set or not
BatchTable(metrics) ==
    <<<<"timestamp", MapSeq(metrics, LAMBDA m : m.timestamp)>>,
      <<"node_id", MapSeq(metrics, LAMBDA m : m.node_id)>>,
      <<"node_name", MapSeq(metrics, LAMBDA m : m.node_name)>>,
      <<"cpu_usage", MapSeq(metrics, LAMBDA m : m.cpu_usage)>>,
      <<"is_healthy", MapSeq(metrics, LAMBDA m : m.is_healthy)>>>>

\* x.split('_')[0] for a string holding '_'
SplitFirst(x) ==
    LET i == CHOOSE j \in 1..Len(x) :
                 /\ SubSeq(x, j, j) = "_"
                 /\ \A k \in 1..(j - 1) : SubSeq(x, k, k) # "_"
    IN  SubSeq(x, 1, i - 1)

\* main.py:147-149: lambda x: x.split('_')[0] if '_' in x else 'unknown'
InferClientType(c) ==
    IF Contains(c.s, "_") THEN Str(SplitFirst(c.s)) ELSE Str("unknown")

\* main.py:147-149: `'_' in x` is a TypeError when x is None
InferClientTypeRaises(df) == \E c \in Range(Get(df, "node_id")) : IsNa(c)

\* main.py:151-153: (1 - is_healthy) * 100.0
ErrorRateOf(c) == Num((1 - c.n) * 100)

\* main.py:144-153: the columns added to the table (client_type is not a
\* field of NodeMetric, so both are always missing)
WithRequiredColumns(df) ==
    LET typed == SetCol(df, "client_type", MapSeq(Get(df, "node_id"), InferClientType))
    IN  SetCol(typed, "error_rate", MapSeq(Get(typed, "is_healthy"), ErrorRateOf))

\* main.py:172-179: unique_nodes, the keys of live_feature_map in table order
UniqueNodes(engineered_df) ==
    MapSeq(Dedup(Get(engineered_df, "node_id")), LAMBDA c : c.s)

\* predict_routing, main.py:130-179, up to the live feature map:
\*   status  0 while the handler goes on, else the status of the error response
\*   nodes   the keys of live_feature_map
BatchResult(status, detail, nodes) == [status |-> status, detail |-> detail, nodes |-> nodes]
prepare_batch(metrics, fe_config) ==
    IF Len(metrics) = 0
    THEN BatchResult(400, "No metrics provided", <<>>)                  \* 134-138
    ELSE LET raw_df == BatchTable(metrics)
         IN  IF InferClientTypeRaises(raw_df)
             THEN BatchResult(500, "Prediction failed", <<>>)           \* 147, 210-215
             ELSE LET fe == engineer_features(WithRequiredColumns(raw_df), fe_config)
                  IN  IF fe.raised # ""
                      THEN BatchResult(500, "Prediction failed", <<>>)  \* 170, 210-215
                      ELSE BatchResult(0, "", UniqueNodes(fe.df))

\* ------------------------------------------------ vigil_data_collector
\* ---- app/core/config.py
\* the keys of settings.NODE_URLS, in insertion order (config.py:48-51; the
\* two optional URLs are not configured)
NodeUrls == <<"ankr_devnet", "solana_public_devnet">>
\* config.py:35
SimulatedNodeName == "agave_self_hosted"

\* ---- app/tasks/rpc_poller.py
\* deque(maxlen=30), rpc_poller.py:259, 287
HistoryMaxLen == 30
\* random.randint(366000000, 366100000), rpc_poller.py:171: the value drawn
SimulatedSlot == 366000000

\* NodeMetrics, app/schemas/metric.py:6-18.  An Optional[int] is <<>> (None)
\* or <<value>>.  latency_ms and the OS metrics, measured or drawn values that
\* no statement of the collector reads again, are left out.
NodeMetrics(timestamp, node_name, slot, is_healthy, block_height_gap) ==
    [timestamp |-> timestamp, node_name |-> node_name, slot |-> slot,
     is_healthy |-> is_healthy, block_height_gap |-> block_height_gap]

\* What get_slot_and_latency_async returns, rpc_poller.py:22-120:
\* (is_healthy, slot, latency_ms) without the latency.
QueryResult(is_healthy, slot) == [is_healthy |-> is_healthy, slot |-> slot]

\* rpc_poller.py:211-225: the highest slot among the healthy results
CurrentMaxSlot(results) ==
    MaxOf({0} \cup {results[i].slot[1] : i \in {j \in 1..Len(results) :
                        results[j].is_healthy = 1 /\ results[j].slot # <<>>}})

\* rpc_poller.py:238-240 and 265-267
BlockHeightGap(is_healthy, slot, current_max_slot) ==
    IF is_healthy = 1 /\ slot # <<>> /\ current_max_slot > 0
    THEN <<Max(0, current_max_slot - slot[1])>>
    ELSE <<>>

\* rpc_poller.py:162-171, simulate_node_metrics: the slot, slot_lag drawn
SimulateSlot(current_max_slot, slot_lag) ==
    IF current_max_slot > 0 THEN Max(0, current_max_slot - slot_lag) ELSE SimulatedSlot

\* d[k] = v on a dict
SetItem(d, k, v) ==
    IF Has(d, k) THEN MapSeq(d, LAMBDA p : IF p[1] = k THEN <<k, v>> ELSE p)
    ELSE Append(d, <<k, v>>)

\* a deque that never drops an entry
DequeAppend_Unbounded(q, x) == Append(q, x)

\* deque(maxlen=30).append(x): a full deque drops its oldest entry
DequeAppend(q, x) ==
    IF Len(q) >= HistoryMaxLen THEN Append(Tail(q), x) ELSE Append(q, x)

\* The collector's module globals (rpc_poller.py:15-19) and, as `appended`,
\* every entry ever appended to a node's history.
Memory(cache, history, appended) ==
    [cache |-> cache, history |-> history, appended |-> appended]

\* the cache entry is written, the history is not
Store_CacheOnly(mem, metrics) ==
    Memory(SetItem(mem.cache, metrics.node_name, metrics), mem.history, mem.appended)

\* rpc_poller.py:255-260 and 283-288: the cache entry, then the history
Store(mem, metrics) ==
    Memory(SetItem(mem.cache, metrics.node_name, metrics),
           SetItem(mem.history, metrics.node_name,
                   DequeAppend(GetOr(mem.history, metrics.node_name, <<>>), metrics)),
           SetItem(mem.appended, metrics.node_name,
                   Append(GetOr(mem.appended, metrics.node_name, <<>>), metrics)))

\* rpc_poller.py:236-262: the loop over node_results
RECURSIVE StoreLoop(_, _, _, _, _)
StoreLoop(mem, timestamp, results, current_max_slot, i) ==
    IF i > Len(results) THEN mem
    ELSE LET r == results[i]
             metrics == NodeMetrics(timestamp, NodeUrls[i], r.slot, r.is_healthy,
                                    BlockHeightGap(r.is_healthy, r.slot, current_max_slot))
         IN  StoreLoop(Store(mem, metrics), timestamp, results, current_max_slot, i + 1)

\* poll_nodes_job from the return of asyncio.gather on, rpc_poller.py:209-301:
\* no await in these lines, so they run as one step of the event loop.
ProcessResults(mem, timestamp, results, slot_lag) ==
    LET current_max_slot == CurrentMaxSlot(results)
        sim_slot == SimulateSlot(current_max_slot, slot_lag)
        simulated_metrics ==
            NodeMetrics(timestamp, SimulatedNodeName, <<sim_slot>>, 1,
                        BlockHeightGap(1, <<sim_slot>>, current_max_slot))
    IN  Store(StoreLoop(mem, timestamp, results, current_max_slot, 1), simulated_metrics)

\* A run of poll_nodes_job: "idle", "awaiting" (at asyncio.gather, line 207,
\* holding the timestamp of line 186) or "done".
Poll(state, timestamp) == [state |-> state, timestamp |-> timestamp]

\* ---- app/api/v1/endpoints/metrics.py
\* Query(20, ge=1, le=100), metrics.py:29
LimitMin == 1
LimitMax == 100

\* list(d.values())
ValueList(d) == MapSeq(d, LAMBDA p : p[2])

\* list(history)[-limit:], metrics.py:48 (s[-0:] is the whole list)
LastN(s, limit) ==
    IF limit <= 0 \/ limit >= Len(s) THEN s ELSE SubSeq(s, Len(s) - limit + 1, Len(s))

\* metrics.py:44-51
RECURSIVE HistoryLoop(_, _, _)
HistoryLoop(history, limit, i) ==
    IF i > Len(history) THEN <<>>
    ELSE LastN(history[i][2], limit) \o HistoryLoop(history, limit, i + 1)

HttpResponse(status, body) == [status |-> status, body |-> body]
NoHttpResponse == HttpResponse(0, <<>>)

\* GET /api/v1/metrics/latest-metrics, metrics.py:10-24
get_latest_metrics(cache) == HttpResponse(200, ValueList(cache))

\* GET /api/v1/metrics/history?limit=, metrics.py:27-51; a limit outside
\* [1, 100] is rejected by the Query validation with 422
get_metrics_history(history, limit) ==
    IF limit < LimitMin \/ limit > LimitMax THEN HttpResponse(422, <<>>)
    ELSE HttpResponse(200, HistoryLoop(history, limit, 1))

\* ------------------------------------------------------------ inputs
\* Failure probabilities (tenths) the failure classifier may return.
Probs == {0, 10}
\* Raw outputs (ms) of a latency model: negative, in range, above the cap.
RawPredictions == {-50, 0, 100, 9999, 10000, 12000}
LatencyModels == {"absent", "raises", "predicts"}

\* config['optimization']: absent keys fall back to the defaults
\* (routing.py:30-32); `usable` is FALSE when a weight is not a number.
Weights(wf, wl, usable) ==
    [weight_failure |-> wf, weight_latency |-> wl, usable |-> usable]
DefaultConfig == Weights(DefaultWeightFailure, DefaultWeightLatency, TRUE)
BrokenConfig == Weights(0, 0, FALSE)
Configs == {DefaultConfig, Weights(5, 5, TRUE), Weights(0, 10, TRUE), BrokenConfig}
PredictorConfigs == {DefaultConfig, BrokenConfig}

\* Table entries for direct calls of optimize_routing.
CallProbs == Probs
CallLatencies == {100, 200}
\* Latency of a table entry whose node is not in the candidate list.
StaleLatencies == {50}

\* The dict holding tbl[i] for the i-th node name, for i in the domain of tbl,
\* in candidate order.
TableOf(tbl) ==
    MapSeq(SelectSeq([i \in 1..Len(NodeNames) |-> i], LAMBDA i : i \in DOMAIN tbl),
           LAMBDA i : <<NodeNames[i], tbl[i]>>)
Reverse(s) == [i \in 1..Len(s) |-> s[Len(s) + 1 - i]]

\* Failure probabilities and latencies (ms) of a two-candidate call: every
\* tenth, and the latencies of the healthy and the failing node of
\* tests/test_prediction.py.
PairProbs == 0..ProbScale
PairLatencies == {80, 100, 250}

\* Raw latency-model outputs used in Live Feature Maps.
RowPredictions == {100, 12000}

\* Rows of a Live Feature Map.
Rows ==
    {Row("KeyError", 0, FALSE, "absent", 0), Row("Exception", 0, FALSE, "absent", 0)}
    \cup {Row("ok", p, a, "absent", 0) : p \in Probs, a \in BOOLEAN}
    \cup {Row("ok", p, a, "raises", 0) : p \in Probs, a \in BOOLEAN}
    \cup {Row("ok", p, a, "predicts", raw) : p \in Probs, a \in BOOLEAN, raw \in RowPredictions}

\* ---- inputs of engineer_features
\* the nodes and client types of the raw tables
ClientTypes == <<"agave", "firedancer">>
\* cpu_usage of a raw sample: null, below and above the threshold
CpuValues == {NaN, Num(50), Num(90)}
RawRows == [node : 1..2, cpu : CpuValues]
\* the samples of the tables of another shape: cpu_usage is never null
ShapedRows == [node : 1..2, cpu : CpuValues \ {NaN}]
ErrorRate == Num(2)
CpuThreshold == Num(80)
CpuDefault == Num(40)
ErrorRateDefault == Num(5)

\* config['feature_engineering']
FeConfig(feature_defaults, interaction_pairs, thresholds, metrics_to_engineer, rolling_windows, lag_periods) ==
    [feature_defaults |-> feature_defaults, interaction_pairs |-> interaction_pairs,
     thresholds |-> thresholds, metrics_to_engineer |-> metrics_to_engineer,
     rolling_windows |-> rolling_windows, lag_periods |-> lag_periods]
\* no 'feature_engineering' section: every .get falls back to empty
EmptyFeConfig == FeConfig(<<>>, <<>>, <<>>, <<>>, <<>>, <<>>)
FullFeConfig ==
    FeConfig(<<<<"cpu_usage", CpuDefault>>, <<"error_rate", ErrorRateDefault>>>>,
             <<<<"cpu_usage", "error_rate">>>>,
             <<<<"cpu_usage", CpuThreshold>>>>,
             <<"cpu_usage">>, <<2>>, <<1>>)
\* cpu_usage has no configured default
NoCpuDefaultFeConfig ==
    [FullFeConfig EXCEPT !.feature_defaults = <<<<"error_rate", ErrorRateDefault>>>>]
\* a pair with a text column, a pair that is no pair, a pair and a metric
\* naming absent columns, a threshold that is no number
QuirkyFeConfig ==
    FeConfig(<<<<"cpu_usage", CpuDefault>>>>,
             <<<<"cpu_usage", "client_type">>, <<"cpu_usage">>, <<"cpu_usage", "memory_usage">>>>,
             <<<<"cpu_usage", Str("high")>>, <<"disk_io", CpuThreshold>>>>,
             <<"cpu_usage", "disk_io">>, <<2, 3>>, <<1, 2>>)
FeConfigs == {FullFeConfig, NoCpuDefaultFeConfig, QuirkyFeConfig, EmptyFeConfig}

\* The shape of a raw table: the columns it lacks, how node ids and
\* timestamps are held, the order of its rows, a null client_type.
Shape(missing, ids, ts, descending, client_null) ==
    [missing |-> missing, ids |-> ids, ts |-> ts, descending |-> descending,
     client_null |-> client_null]
PlainShape == Shape({}, "str", "datetime", FALSE, FALSE)
Shapes ==
    {Shape({}, "str", "datetime", TRUE, FALSE),
     Shape({"error_rate"}, "str", "datetime", FALSE, FALSE),
     Shape({"timestamp"}, "str", "datetime", FALSE, FALSE),
     Shape({"node_id"}, "str", "datetime", FALSE, FALSE),
     Shape({}, "int", "datetime", FALSE, FALSE),
     Shape({}, "str", "text", FALSE, FALSE),
     Shape({}, "str", "bad", FALSE, FALSE),
     Shape({}, "str", "datetime", FALSE, TRUE)}

\* pd.DataFrame(rows): the i-th sample was taken at minute i (at minute
\* n + 1 - i in a table held in descending order)
RawTable(rows, shape) ==
    LET n == Len(rows)
        minute(i) == IF shape.descending THEN n + 1 - i ELSE i
        ts(i) == IF shape.ts = "datetime" THEN Datetime(minute(i))
                 ELSE IF shape.ts = "bad" /\ i = 1 THEN Str("not a date")
                 ELSE Str(TimestampText(minute(i)))
        id(i) == IF shape.ids = "int" THEN PyInt(rows[i].node) ELSE Str(NodeNames[rows[i].node])
        ct(i) == IF shape.client_null THEN NaN ELSE Str(ClientTypes[rows[i].node])
        all == <<<<"timestamp", MapSeq(Upto(n), ts)>>,
                 <<"node_id", MapSeq(Upto(n), id)>>,
                 <<"client_type", MapSeq(Upto(n), ct)>>,
                 <<"cpu_usage", MapSeq(rows, LAMBDA r : r.cpu)>>,
                 <<"error_rate", MapSeq(rows, LAMBDA r : ErrorRate)>>>>
    IN  SelectSeq(all, LAMBDA p : p[1] \notin shape.missing)

\* tests/test_prediction.py:47-63: nine healthy samples of agave1, then one
\* with cpu_usage 10 above its threshold
FailingHistory ==
    RawTable(MapSeq(Upto(10), LAMBDA i : [node |-> 1, cpu |-> IF i < 10 THEN Num(50) ELSE Num(90)]),
             PlainShape)

\* ---- inputs of POST /predict
\* node identifiers as the collector names its nodes
\* (vigil_data_collector/app/core/config.py:35, 49)
BatchNodes == {"agave_self_hosted", "ankr_devnet"}
\* a record as an ML client sends it (node_id), and as the collector emits it
\* (node_name, vigil_data_collector/app/schemas/metric.py:6-18)
BatchRecords ==
    {[node_id |-> Str(n), node_name |-> NaN] : n \in BatchNodes}
        \cup {[node_id |-> NaN, node_name |-> Str(n)] : n \in BatchNodes}

\* ---- inputs of the collector
\* slot reported by a node that answers
Slots == {100}
\* The collector's surroundings are "varying" (a node query may fail, the
\* slot lag drawn for the simulated node varies) or "steady" (every query is
\* answered, the lag drawn is 0).
\* slot_lag drawn by simulate_node_metrics (rpc_poller.py:163-166)
SlotLags(environment) == IF environment = "varying" THEN {0, 5} ELSE {0}
\* what a node query returns: a failure, or a slot
QueryResults(environment) ==
    {QueryResult(1, <<slot>>) : slot \in Slots}
        \cup (IF environment = "varying" THEN {QueryResult(0, <<>>)} ELSE {})
\* values of ?limit=
Limits == {0, 1, 2, HistoryMaxLen, LimitMax, LimitMax + 1}
\* the number of timestamps taken in a run of the model
PollBudget(environment) == IF environment = "steady" THEN HistoryMaxLen + 2 ELSE MaxPolls

\* ---- inputs of get_exog_feature_list
\* a history holding the latency target column (tests/test_prediction.py:55-59)
LatencyHistory ==
    <<<<"timestamp", <<Datetime(1), Datetime(2)>>>>,
      <<"node_id", <<Str(NodeNames[1]), Str(NodeNames[1])>>>>,
      <<"client_type", <<Str(ClientTypes[1]), Str(ClientTypes[1])>>>>,
      <<"cpu_usage", <<Num(50), Num(90)>>>>,
      <<"latency_ms", <<Num(100), Num(250)>>>>>>
LatencyThreshold == Num(200)
\* feature-engineering configurations that do or do not name the target
TargetConfigs ==
    {FeConfig(<<>>, interaction_pairs, thresholds, metrics_to_engineer, <<2>>, <<1>>) :
        interaction_pairs \in {<<>>, <<<<"cpu_usage", "latency_ms">>>>,
                               <<<<"latency_ms", "cpu_usage">>>>,
                               <<<<"cpu_usage", "latency_ms">>, <<"latency_ms", "cpu_usage">>>>},
        thresholds \in {<<>>, <<<<"cpu_usage", CpuThreshold>>>>,
                        <<<<"latency_ms", LatencyThreshold>>>>,
                        <<<<"cpu_usage", CpuThreshold>>, <<"latency_ms", LatencyThreshold>>>>},
        metrics_to_engineer \in {<<>>, <<"cpu_usage">>, <<"latency_ms">>,
                                 <<"cpu_usage", "latency_ms">>}}
LatencyTargets == {"latency_ms"}

\* ------------------------------------------------------------- state
VARIABLES
    pc,               \* "idle", or the call that has just returned
    failure_probs,    \* optimize_routing's arguments ...
    latencies,
    nodes,
    config,
    opt_ret,          \* ... and its result
    forecast,         \* forecast_latency: the node's model, its output, the result
    self_config,      \* SentryPredictor.config, loaded once at start-up
    engineered_data,  \* get_recommendation's Live Feature Map ...
    rec_ret,          \* ... and its result
    response,         \* POST /predict: the HTTP response
    raw_df,           \* engineer_features: the caller's table as passed ...
    fe_config,        \* ... config['feature_engineering'] ...
    fe_ret,           \* ... and what the call left behind
    target,           \* config['latency_model']['target_column']
    all_features,     \* artifacts['feature_list']
    exog_features,    \* get_exog_feature_list's result
    batch,            \* POST /predict: batch.metrics
    now,              \* the collector: readings of datetime.now so far
    latest_metrics_cache,   \* rpc_poller.latest_metrics_cache
    metrics_history,        \* rpc_poller.metrics_history
    appended,         \* every entry appended to metrics_history, per node
    startup_poll,     \* the poll_nodes_job awaited by startup_event
    scheduled_poll,   \* the poll_nodes_job run by the scheduler
    scheduler_running,
    environment,      \* "varying" or "steady" surroundings of the collector
    limit,            \* GET /history: the query parameter ...
    http_response     \* ... and the collector's answer to a GET

feature_vars == <<raw_df, fe_config, fe_ret, target, all_features, exog_features>>
request_vars == <<batch>>
collector_vars == <<now, latest_metrics_cache, metrics_history, appended, startup_poll,
                    scheduled_poll, scheduler_running, environment, limit, http_response>>
predictor_vars == <<failure_probs, latencies, nodes, config, opt_ret, forecast,
                    self_config, engineered_data, rec_ret, response>>

vars == <<pc, failure_probs, latencies, nodes, config, opt_ret, forecast,
          self_config, engineered_data, rec_ret, response,
          raw_df, fe_config, fe_ret, target, all_features, exog_features,
          batch, now, latest_metrics_cache, metrics_history, appended, startup_poll,
          scheduled_poll, scheduler_running, environment, limit, http_response>>

NoOptRet == [node |-> "", cost_scores |-> <<>>, path |-> "none"]
NoForecast == [latency_model |-> "absent", raw_prediction |-> 0, ret |-> 0]
NoFeResult == FeResult("", <<>>, <<>>, FALSE, "none")

\* The state after construction, but for the collector's surroundings.
InitProgram ==
    /\ pc = "idle"
    /\ failure_probs = <<>>
    /\ latencies = <<>>
    /\ nodes = <<>>
    /\ config = DefaultConfig
    /\ opt_ret = NoOptRet
    /\ forecast = NoForecast
    /\ self_config \in PredictorConfigs
    /\ engineered_data = <<>>
    /\ rec_ret = NoBundle
    /\ response = NoResponse
    /\ raw_df = <<>>
    /\ fe_config = EmptyFeConfig
    /\ fe_ret = NoFeResult
    /\ target = ""
    /\ all_features = <<>>
    /\ exog_features = <<>>
    /\ batch = <<>>
    /\ now = 0
    /\ latest_metrics_cache = <<>>
    /\ metrics_history = <<>>
    /\ appended = <<>>
    /\ startup_poll = Poll("idle", 0)
    /\ scheduled_poll = Poll("idle", 0)
    /\ scheduler_running = FALSE
    /\ limit = 0
    /\ http_response = NoHttpResponse

Init == InitProgram /\ environment = "varying"

\* A direct call of optimize_routing with arbitrary tables: a candidate may
\* have no entry in either table, the latency table may hold a node that is
\* not a candidate, and its insertion order may differ from the list's.
CallOptimizeRouting ==
    /\ pc = "idle"
    /\ \E n \in 0..MaxNodes :
       \E has_fp \in SUBSET (1..n), has_lt \in SUBSET (1..n) :
       \E fp \in [has_fp -> CallProbs], lt \in [has_lt -> CallLatencies],
          stale \in SUBSET StaleLatencies, rev \in BOOLEAN, cfg \in Configs :
          LET fps == TableOf(fp)
              lts == TableOf(lt) \o (IF stale = {} THEN <<>>
                                     ELSE <<<<StaleNode, CHOOSE v \in stale : TRUE>>>>)
              lat == IF rev THEN Reverse(lts) ELSE lts
              ns  == [i \in 1..n |-> NodeNames[i]]
          IN  /\ failure_probs' = fps
              /\ latencies' = lat
              /\ nodes' = ns
              /\ config' = cfg
              /\ opt_ret' = optimize_routing(fps, lat, ns, cfg)
    /\ pc' = "optimize_routing"
    /\ UNCHANGED <<feature_vars, request_vars, collector_vars>>
    /\ UNCHANGED <<forecast, self_config, engineered_data, rec_ret, response>>

\* A call of optimize_routing for two candidates with complete tables, as
\* get_recommendation makes it for a healthy and a failing node.
CallOptimizePair ==
    /\ pc = "idle"
    /\ \E fp \in [1..2 -> PairProbs], lt \in [1..2 -> PairLatencies], cfg \in Configs :
          LET ns == <<NodeNames[1], NodeNames[2]>>
          IN  /\ failure_probs' = TableOf(fp)
              /\ latencies' = TableOf(lt)
              /\ nodes' = ns
              /\ config' = cfg
              /\ opt_ret' = optimize_routing(TableOf(fp), TableOf(lt), ns, cfg)
    /\ pc' = "optimize_routing"
    /\ UNCHANGED <<feature_vars, request_vars, collector_vars>>
    /\ UNCHANGED <<forecast, self_config, engineered_data, rec_ret, response>>

\* A direct call of forecast_latency.
CallForecastLatency ==
    /\ pc = "idle"
    /\ \E m \in LatencyModels, raw \in RawPredictions :
          forecast' = [latency_model |-> m, raw_prediction |-> raw,
                       ret |-> forecast_latency(m, raw)]
    /\ pc' = "forecast_latency"
    /\ UNCHANGED <<feature_vars, request_vars, collector_vars>>
    /\ UNCHANGED <<failure_probs, latencies, nodes, config, opt_ret,
                   self_config, engineered_data, rec_ret, response>>

\* The Live Feature Map whose i-th node has the i-th name and row rows[i].
LiveFeatureMap(rows) == [i \in 1..Len(rows) |-> <<NodeNames[i], rows[i]>>]

\* A direct call of SentryPredictor.get_recommendation (tests, predict.main).
CallGetRecommendation ==
    /\ pc = "idle"
    /\ \E n \in 0..MaxNodes : \E rows \in [1..n -> Rows] :
          /\ engineered_data' = LiveFeatureMap(rows)
          /\ rec_ret' = get_recommendation(LiveFeatureMap(rows), self_config)
    /\ pc' = "get_recommendation"
    /\ UNCHANGED <<feature_vars, request_vars, collector_vars>>
    /\ UNCHANGED <<failure_probs, latencies, nodes, config, opt_ret, forecast,
                   self_config, response>>

\* POST /predict, from the live feature map on.
CallPredictRouting ==
    /\ pc = "idle"
    /\ \E n \in 0..MaxNodes : \E rows \in [1..n -> Rows] :
          /\ engineered_data' = LiveFeatureMap(rows)
          /\ response' = predict_routing(LiveFeatureMap(rows), self_config)
          \* what the handler got back from get_recommendation (main.py:189)
          /\ rec_ret' = IF n = 0 THEN NoBundle
                        ELSE get_recommendation(LiveFeatureMap(rows), self_config)
    /\ pc' = "predict_routing"
    /\ UNCHANGED <<feature_vars, request_vars, collector_vars>>
    /\ UNCHANGED <<failure_probs, latencies, nodes, config, opt_ret, forecast,
                   self_config>>

\* POST /predict, from the request body on: the rows of the live feature map
\* hold what the models will make of each node's engineered features.
CallPredictBatch ==
    /\ pc = "idle"
    /\ \E n \in 0..MaxRows : \E recs \in [1..n -> BatchRecords] :
       \E metrics \in {MapSeq(Upto(n), LAMBDA i : NodeMetric(i, recs[i].node_id, recs[i].node_name))} :
       \E pre \in {prepare_batch(metrics, FullFeConfig)} :
              /\ batch' = metrics
              /\ \/ /\ pre.status # 0
                    /\ engineered_data' = <<>>
                    /\ rec_ret' = NoBundle
                    /\ response' = [status |-> pre.status, detail |-> pre.detail,
                                    body |-> NoBundle]
                 \/ /\ pre.status = 0
                    /\ \E rows \in [1..Len(pre.nodes) -> Rows] :
                          LET live_feature_map ==
                                  MapSeq(Upto(Len(pre.nodes)), LAMBDA i : <<pre.nodes[i], rows[i]>>)
                          IN  /\ engineered_data' = live_feature_map
                              /\ rec_ret' = IF Len(live_feature_map) = 0 THEN NoBundle
                                            ELSE get_recommendation(live_feature_map, self_config)
                              /\ response' = predict_routing(live_feature_map, self_config)
    /\ pc' = "predict_batch"
    /\ UNCHANGED <<feature_vars, collector_vars>>
    /\ UNCHANGED <<failure_probs, latencies, nodes, config, opt_ret, forecast,
                   self_config>>

\* The call's result has been consumed; nothing is kept between requests.
Return ==
    /\ pc # "idle"
    /\ pc' = "idle"
    /\ failure_probs' = <<>>
    /\ latencies' = <<>>
    /\ nodes' = <<>>
    /\ config' = DefaultConfig
    /\ opt_ret' = NoOptRet
    /\ forecast' = NoForecast
    /\ engineered_data' = <<>>
    /\ rec_ret' = NoBundle
    /\ response' = NoResponse
    /\ raw_df' = <<>>
    /\ fe_config' = EmptyFeConfig
    /\ fe_ret' = NoFeResult
    /\ target' = ""
    /\ all_features' = <<>>
    /\ exog_features' = <<>>
    /\ batch' = <<>>
    /\ UNCHANGED self_config
    /\ UNCHANGED collector_vars

\* The predictor: SentryPredictor's methods called on a loaded instance.
Next ==
    \/ CallForecastLatency
    \/ CallGetRecommendation
    \/ Return

Spec == Init /\ [][Next]_vars

\* The serving layer: POST /predict on the loaded predictor.
NextApi ==
    \/ CallPredictRouting
    \/ CallPredictBatch
    \/ Return

SpecApi == Init /\ [][NextApi]_vars

\* The routing optimizer on its own, called with arbitrary tables.
InitRouting == Init /\ self_config = DefaultConfig

NextRouting ==
    \/ CallOptimizeRouting
    \/ CallOptimizePair
    \/ Return

SpecRouting == InitRouting /\ [][NextRouting]_vars

\* A call of engineer_features: a raw table of plain shape under every
\* configuration, a table of another shape under the full configuration, the
\* empty DataFrame, and the failing-node history of the tests.
CallEngineerFeatures ==
    /\ pc = "idle"
    /\ \/ \E n \in 1..MaxRows : \E rows \in [1..n -> RawRows], cfg \in FeConfigs :
             /\ raw_df' = RawTable(rows, PlainShape)
             /\ fe_config' = cfg
             /\ fe_ret' = engineer_features(RawTable(rows, PlainShape), cfg)
       \/ \E n \in 1..MaxRows : \E rows \in [1..n -> ShapedRows], shape \in Shapes :
             /\ raw_df' = RawTable(rows, shape)
             /\ fe_config' = FullFeConfig
             /\ fe_ret' = engineer_features(RawTable(rows, shape), FullFeConfig)
       \/ \E df \in {<<>>, FailingHistory} :
             /\ raw_df' = df
             /\ fe_config' = FullFeConfig
             /\ fe_ret' = engineer_features(df, FullFeConfig)
    /\ pc' = "engineer_features"
    /\ UNCHANGED <<target, all_features, exog_features>>
    /\ UNCHANGED <<predictor_vars, request_vars, collector_vars>>

\* Training saves the feature list of the engineered table (train.py:33);
\* the loaded predictor then derives the latency forecaster's feature set.
CallGetExogFeatureList ==
    /\ pc = "idle"
    /\ \E cfg \in TargetConfigs, tgt \in LatencyTargets :
          LET features == get_feature_columns(engineer_features(LatencyHistory, cfg).df, tgt)
          IN  /\ fe_config' = cfg
              /\ target' = tgt
              /\ all_features' = features
              /\ exog_features' = get_exog_feature_list(features, tgt)
    /\ pc' = "get_exog_feature_list"
    /\ UNCHANGED <<raw_df, fe_ret>>
    /\ UNCHANGED <<predictor_vars, request_vars, collector_vars>>

\* The feature pipeline and the feature list derived from it.
NextFeatures ==
    \/ CallEngineerFeatures
    \/ CallGetExogFeatureList
    \/ Return

SpecFeatures == InitRouting /\ [][NextFeatures]_vars

\* ---- the collector service
other_vars == <<predictor_vars, feature_vars, request_vars>>

\* startup_event, main.py:52-79, up to the await of the initial poll: the
\* scheduler is started, then poll_nodes_job reads the clock (rpc_poller.py:186)
\* and waits for the node queries (207).
StartupEvent ==
    /\ pc = "idle"
    /\ ~scheduler_running /\ startup_poll.state = "idle"
    /\ scheduler_running' = TRUE
    /\ now' = now + 1
    /\ startup_poll' = Poll("awaiting", now + 1)
    /\ UNCHANGED <<pc, latest_metrics_cache, metrics_history, appended, scheduled_poll,
                   environment, limit, http_response>>
    /\ UNCHANGED other_vars

\* The interval trigger fires (main.py:65-71): poll_nodes_job runs up to its
\* await.  The scheduler skips a run while its previous one is still going
\* (max_instances is left at 1); it knows nothing of the initial poll.
ScheduledPollStart ==
    /\ pc = "idle"
    /\ scheduler_running /\ scheduled_poll.state = "idle"
    /\ now < PollBudget(environment)
    /\ now' = now + 1
    /\ scheduled_poll' = Poll("awaiting", now + 1)
    /\ UNCHANGED <<pc, latest_metrics_cache, metrics_history, appended, startup_poll,
                   scheduler_running, environment, limit, http_response>>
    /\ UNCHANGED other_vars

\* asyncio.gather returns to the poll that holds `timestamp`: the results are
\* processed and stored (rpc_poller.py:209-301).
PollResumes(timestamp) ==
    \E results \in [1..Len(NodeUrls) -> QueryResults(environment)], slot_lag \in SlotLags(environment) :
    \E mem \in {ProcessResults(Memory(latest_metrics_cache, metrics_history, appended),
                               timestamp, results, slot_lag)} :
        /\ latest_metrics_cache' = mem.cache
        /\ metrics_history' = mem.history
        /\ appended' = mem.appended

\* The initial poll completes and with it startup_event: the service starts
\* to accept requests.
StartupPollFinish ==
    /\ pc = "idle"
    /\ startup_poll.state = "awaiting"
    /\ PollResumes(startup_poll.timestamp)
    /\ startup_poll' = Poll("done", startup_poll.timestamp)
    /\ UNCHANGED <<pc, now, scheduled_poll, scheduler_running, environment, limit, http_response>>
    /\ UNCHANGED other_vars

ScheduledPollFinish ==
    /\ pc = "idle"
    /\ scheduled_poll.state = "awaiting"
    /\ PollResumes(scheduled_poll.timestamp)
    /\ scheduled_poll' = Poll("idle", 0)
    /\ UNCHANGED <<pc, now, startup_poll, scheduler_running, environment, limit, http_response>>
    /\ UNCHANGED other_vars

\* GET /api/v1/metrics/latest-metrics, once startup has completed
GetLatestMetrics ==
    /\ pc = "idle"
    /\ startup_poll.state = "done"
    /\ http_response' = get_latest_metrics(latest_metrics_cache)
    /\ limit' = 0
    /\ pc' = "get_latest_metrics"
    /\ UNCHANGED <<now, latest_metrics_cache, metrics_history, appended, startup_poll,
                   scheduled_poll, scheduler_running, environment>>
    /\ UNCHANGED other_vars

\* GET /api/v1/metrics/history?limit=, once startup has completed
GetMetricsHistory ==
    /\ pc = "idle"
    /\ startup_poll.state = "done"
    /\ \E l \in Limits :
          /\ limit' = l
          /\ http_response' = get_metrics_history(metrics_history, l)
    /\ pc' = "get_metrics_history"
    /\ UNCHANGED <<now, latest_metrics_cache, metrics_history, appended, startup_poll,
                   scheduled_poll, scheduler_running, environment>>
    /\ UNCHANGED other_vars

\* The response has been sent.
ReturnCollector ==
    /\ pc # "idle"
    /\ pc' = "idle"
    /\ limit' = 0
    /\ http_response' = NoHttpResponse
    /\ UNCHANGED <<now, latest_metrics_cache, metrics_history, appended, startup_poll,
                   scheduled_poll, scheduler_running, environment>>
    /\ UNCHANGED other_vars

NextCollector ==
    \/ StartupEvent
    \/ ScheduledPollStart
    \/ StartupPollFinish
    \/ ScheduledPollFinish
    \/ GetLatestMetrics
    \/ GetMetricsHistory
    \/ ReturnCollector

\* The collector in varying surroundings.
InitCollector == Init /\ self_config = DefaultConfig
SpecCollector == InitCollector /\ [][NextCollector]_vars

\* The collector on a run long enough to fill the histories, in steady
\* surroundings.
InitHistory == InitProgram /\ self_config = DefaultConfig /\ environment = "steady"
SpecHistory == InitHistory /\ [][NextCollector]_vars

\* =============================================================== claims
OkItem(item) == item[2].infer = "ok"
OkItems(data) == SelectSeq(data, OkItem)
NodeIds(preds) == {preds[i].node_id : i \in 1..Len(preds)}
\* data without its i-th item
Without(data, i) == SubSeq(data, 1, i - 1) \o SubSeq(data, i + 1, Len(data))

\* C1: in get_recommendation a node whose inference raises is left out of
\* all_predictions, the call still returns, and all_predictions (every other
\* node's failure_prob, predicted_latency_ms, anomaly_detected, cost_score) is
\* what the call returns for the map without that node; the list has one
\* entry per node that did not raise.
C1_FailingNodeIsolated ==
    pc = "get_recommendation" =>
        /\ ~rec_ret.raised
        /\ Len(rec_ret.all_predictions) = Len(OkItems(engineered_data))
        /\ \A i \in 1..Len(engineered_data) :
              ~OkItem(engineered_data[i]) =>
                  /\ engineered_data[i][1] \notin NodeIds(rec_ret.all_predictions)
                  /\ rec_ret.all_predictions =
                         get_recommendation(Without(engineered_data, i),
                                           self_config).all_predictions

C1_Witness ==
    /\ pc = "get_recommendation"
    /\ Len(engineered_data) = 3
    /\ Len(OkItems(engineered_data)) = 2
    /\ engineered_data[2][2].infer = "KeyError"
    /\ Len(rec_ret.all_predictions) = 2
    /\ rec_ret.recommended_node = engineered_data[3][1]

\* C2: when no node produces a prediction (empty map, or every node raises),
\* get_recommendation returns the sentinel 'no_nodes_available' with its
\* message, empty details and an empty prediction list, does not raise, and
\* calls neither the optimizer nor the explanation generator.
C2_NoCandidatesSentinel ==
    (pc = "get_recommendation" /\ Len(OkItems(engineered_data)) = 0) =>
        /\ rec_ret.recommended_node = "no_nodes_available"
        /\ rec_ret.explanation.lead = "No nodes were available for prediction."
        /\ rec_ret.rec_details = <<>>
        /\ rec_ret.all_predictions = <<>>
        /\ ~rec_ret.raised
        /\ rec_ret.invoked = {}

C2_Witness ==
    /\ pc = "get_recommendation"
    /\ Len(engineered_data) = 2
    /\ engineered_data[1][2].infer = "KeyError"
    /\ engineered_data[2][2].infer = "Exception"
    /\ rec_ret.recommended_node = "no_nodes_available"

\* C3: a POST /predict request in which every node fails inference is
\* answered with the no-candidates bundle (recommended_node
\* 'no_nodes_available', empty all_predictions), not with an error response.
C3_NoCandidatesResponse ==
    (/\ pc = "predict_routing"
     /\ Len(engineered_data) > 0
     /\ Len(OkItems(engineered_data)) = 0) =>
        /\ response.status = 200
        /\ response.body.recommended_node = "no_nodes_available"
        /\ response.body.all_predictions = <<>>

\* ---- optimize_routing, called directly
NodeSet == Range(nodes)
Returned == pc = "optimize_routing"
\* The latencies of the candidates that have one.
CandidateLatencies == {Get(latencies, n) : n \in NodeSet \cap Keys(latencies)}
\* weight_failure * p(n) + weight_latency * (lat(n) - lo) / (hi - lo), with
\* the normalized latency 0 when hi = lo.
WeightedCost(n, lo, hi) ==
    IF hi = lo
    THEN Cost(config.weight_failure * Get(failure_probs, n), WeightScale * ProbScale)
    ELSE Cost(config.weight_failure * Get(failure_probs, n) * (hi - lo)
                 + config.weight_latency * ProbScale * (Get(latencies, n) - lo),
              WeightScale * ProbScale * (hi - lo))
OneEntryPerCandidate ==
    /\ Keys(opt_ret.cost_scores) = NodeSet
    /\ Len(opt_ret.cost_scores) = Cardinality(NodeSet)

CandidatesComplete ==
    /\ Len(nodes) > 0
    /\ NodeSet \subseteq Keys(failure_probs)
    /\ NodeSet \subseteq Keys(latencies)
    /\ config.usable
LowestFailureProb(n) ==
    \A m \in NodeSet : Get(failure_probs, n) <= Get(failure_probs, m)
CostsAreFailureOnly ==
    /\ opt_ret.path = "normal"
    /\ \A n \in NodeSet :
          CostEq(Get(opt_ret.cost_scores, n),
                 Cost(config.weight_failure * Get(failure_probs, n),
                      WeightScale * ProbScale))

C7_Original ==
    (Returned /\ opt_ret.path = "fallback") =>
        /\ Has(latencies, opt_ret.node)
        /\ \A k \in Keys(latencies) : Get(latencies, opt_ret.node) <= Get(latencies, k)
        /\ OneEntryPerCandidate
        /\ \A n \in NodeSet :
              Get(opt_ret.cost_scores, n) = Cost(GetOr(latencies, n, 9999), 1)

\* C7 (amended): when the optimization errors and the latency table is not
\* empty, the recommendation is the first key of the latency table with the
\* minimum raw latency and every candidate's cost is its raw latency, or
\* 9999.0 when it is missing from the table; when the latency table is empty
\* the first listed node is returned with an empty cost table.
C7_Fallback ==
    (Returned /\ Len(nodes) > 0
        /\ ~TryBlockCompletes(failure_probs, latencies, nodes, config)) =>
        /\ opt_ret.path = "fallback"
        /\ IF Len(latencies) = 0
           THEN opt_ret.node = nodes[1] /\ opt_ret.cost_scores = <<>>
           ELSE /\ \E i \in 1..Len(latencies) :
                      /\ opt_ret.node = latencies[i][1]
                      /\ \A k \in 1..Len(latencies) : latencies[i][2] <= latencies[k][2]
                      /\ \A k \in 1..(i - 1) : latencies[i][2] < latencies[k][2]
                /\ OneEntryPerCandidate
                /\ \A n \in NodeSet :
                      Get(opt_ret.cost_scores, n) = Cost(GetOr(latencies, n, 9999), 1)

\* a missing failure probability sends a call to the fallback, where one
\* candidate has no latency and gets the penalty
C7_Witness ==
    /\ Returned /\ opt_ret.path = "fallback"
    /\ config.usable
    /\ Len(nodes) = 3
    /\ ~Has(failure_probs, nodes[1])
    /\ ~Has(latencies, nodes[2])
    /\ opt_ret.node = nodes[3]
    /\ Get(opt_ret.cost_scores, nodes[2]) = Cost(9999, 1)

\* ---- forecast_latency and its use in get_recommendation
\* the entry of all_predictions for node_id, as a sequence of 0 or 1 entries
EntryOf(node_id) == SelectSeq(rec_ret.all_predictions, LAMBDA p : p.node_id = node_id)
NoUsableModel(row) == row.latency_model \in {"absent", "raises"}

\* C8: when a node has no latency model, or its model raises, forecast_latency
\* returns the penalty 9999.0 instead of raising; in get_recommendation that
\* node still has an entry in all_predictions carrying the penalty latency and
\* its own failure_prob and anomaly flag, and every other node that passed
\* inference has its entry with its own values too.
C8_PenaltyInsteadOfRaise ==
    /\ (pc = "forecast_latency" /\ NoUsableModel(forecast)) => forecast.ret = 9999
    /\ pc = "get_recommendation" =>
          /\ ~rec_ret.raised
          /\ \A i \in 1..Len(engineered_data) :
                LET row == engineered_data[i][2]
                    e == EntryOf(engineered_data[i][1])
                IN  OkItem(engineered_data[i]) =>
                       /\ Len(e) = 1
                       /\ e[1].failure_prob = row.failure_prob
                       /\ e[1].anomaly_detected = row.anomaly
                       /\ NoUsableModel(row) => e[1].predicted_latency_ms = 9999
                       /\ (row.latency_model = "predicts"
                              /\ row.raw_prediction \in 0..10000)
                             => e[1].predicted_latency_ms = row.raw_prediction

\* one node without a model, one whose model raises and one forecast by its
\* model: three entries, and the node forecast by its model is recommended
C8_Witness ==
    /\ pc = "get_recommendation"
    /\ Len(engineered_data) = 3
    /\ Len(rec_ret.all_predictions) = 3
    /\ engineered_data[1][2].latency_model = "absent"
    /\ engineered_data[1][2].anomaly
    /\ engineered_data[2][2].latency_model = "raises"
    /\ engineered_data[2][2].failure_prob > 0
    /\ engineered_data[3][2].latency_model = "predicts"
    /\ rec_ret.all_predictions[1].predicted_latency_ms = 9999
    /\ rec_ret.all_predictions[2].predicted_latency_ms = 9999
    /\ rec_ret.recommended_node = engineered_data[3][1]

\* C9: the penalty returned for a node with no model is strictly larger than
\* every latency forecast_latency returns from a successful model prediction.
C9_PenaltyAboveEveryForecast ==
    (pc = "forecast_latency" /\ forecast.latency_model = "predicts") =>
        forecast.ret < forecast_latency("absent", 0)

\* C10: get_recommendation never recommends a node without a latency model
\* while another predicted candidate has a model-based forecast.  Stated here
\* for the cases where the weights are usable and that forecast is below the
\* penalty, so that a violation does not rest on C9.
C10_NoModelNeverChosen ==
    (/\ pc = "get_recommendation"
     /\ self_config.usable
     /\ \E i \in 1..Len(engineered_data) :
           /\ OkItem(engineered_data[i])
           /\ engineered_data[i][2].latency_model = "predicts"
           /\ forecast_latency("predicts", engineered_data[i][2].raw_prediction)
                  < forecast_latency("absent", 0)) =>
        \A i \in 1..Len(engineered_data) :
            (OkItem(engineered_data[i]) /\ engineered_data[i][2].latency_model = "absent")
                => rec_ret.recommended_node # engineered_data[i][1]

\* C11: every latency forecast_latency returns lies in [0, 10000]: a negative
\* model output is floored to 0, an output above 10000 is capped at 10000, an
\* output within the range is returned unchanged; the same holds for every
\* predicted_latency_ms get_recommendation reports.
C11_ForecastClamped ==
    /\ pc = "forecast_latency" =>
          /\ forecast.ret \in 0..10000
          /\ forecast.latency_model = "predicts" =>
                /\ forecast.raw_prediction < 0 => forecast.ret = 0
                /\ forecast.raw_prediction > 10000 => forecast.ret = 10000
                /\ forecast.raw_prediction \in 0..10000
                      => forecast.ret = forecast.raw_prediction
    /\ pc = "get_recommendation" =>
          \A i \in 1..Len(rec_ret.all_predictions) :
              rec_ret.all_predictions[i].predicted_latency_ms \in 0..10000

\* a model output above the range has been capped
C11_Witness ==
    /\ pc = "forecast_latency"
    /\ forecast.latency_model = "predicts"
    /\ forecast.raw_prediction > 10000
    /\ forecast.ret = 10000

\* ---- engineer_features
Engineered == pc = "engineer_features" /\ fe_ret.path = "normal"
RowNumbers(df) == Upto(NRows(df))
\* the rows of df whose cell in column col is `cell`, in frame order
RowsWhere(df, col, cell) ==
    Take(df, SelectSeq(RowNumbers(df), LAMBDA i : Get(df, col)[i] = cell))
RawNodeIds == Range(Get(raw_df, "node_id"))

ProcessedMetrics ==
    {m \in Range(all_metrics_to_process(fe_config)) : Has(fe_ret.df, m)}
Col(name) == Get(fe_ret.df, name)
\* the rows of row r's node with an earlier timestamp, and the latest of them
EarlierRows(r) ==
    {j \in Range(RowNumbers(fe_ret.df)) :
        /\ Col("node_id")[j] = Col("node_id")[r]
        /\ Col("timestamp")[j].n < Col("timestamp")[r].n}
PrevRow(r) ==
    CHOOSE j \in EarlierRows(r) : \A k \in EarlierRows(r) : Col("timestamp")[k].n <= Col("timestamp")[j].n
\* the raw sample engineered row r was made from (one sample per minute)
RawRowOf(r) ==
    CHOOSE i \in Range(RowNumbers(raw_df)) :
        ToDatetime(Get(raw_df, "timestamp")[i]) = Col("timestamp")[r]
\* the metric was null at row r when the derived columns were computed: a
\* null cpu_usage without a configured default, or a product made from it
NullAt(metric, r) ==
    /\ metric = "cpu_usage" \/ StartsWith(metric, "cpu_usage_x_")
    /\ IsNa(Get(raw_df, "cpu_usage")[RawRowOf(r)])
    /\ ~Has(fe_config.feature_defaults, "cpu_usage")

RowsUpTo(r) == EarlierRows(r) \cup {r}
WindowRows(r, window) ==
    {j \in RowsUpTo(r) :
        Cardinality({k \in RowsUpTo(r) : Col("timestamp")[k].n > Col("timestamp")[j].n}) < window}
RECURSIVE SumOver(_, _)
SumOver(metric, S) ==
    IF S = {} THEN Num(0)
    ELSE LET j == CHOOSE k \in S : TRUE
         IN  Add(Col(metric)[j], SumOver(metric, S \ {j}))
MeanOver(metric, S) ==
    LET sum == SumOver(metric, S) IN Frac(sum.n, sum.d * Cardinality(S))

C15_ZeroFill ==
    Engineered =>
        /\ \A c \in 1..Len(fe_ret.df) :
              fe_ret.df[c][1] \notin {"timestamp", "node_id", "client_type"}
                  => \A cell \in Range(fe_ret.df[c][2]) : ~IsNa(cell)
        /\ \A metric \in ProcessedMetrics : \A r \in Range(RowNumbers(fe_ret.df)) :
              EarlierRows(r) = {} =>
                  /\ Col(TrendName(metric))[r] = Num(0)
                  /\ \A i \in 1..Len(fe_config.rolling_windows) :
                        Col(RollingStdName(metric, fe_config.rolling_windows[i]))[r] = Num(0)
                  /\ \A i \in 1..Len(fe_config.lag_periods) :
                        Col(LagName(metric, fe_config.lag_periods[i]))[r] = Num(0)
        /\ \A r \in Range(RowNumbers(fe_ret.df)) :
              /\ Col("timestamp")[r].t = "datetime"
              /\ Col("node_id")[r].t = "str"
              /\ Col("node_id")[r] = AsStr(Get(raw_df, "node_id")[RawRowOf(r)])
              /\ Has(raw_df, "client_type") =>
                    Col("client_type")[r] = Get(raw_df, "client_type")[RawRowOf(r)]

\* a table with null client_type and two samples of one node: the derived
\* columns of the first row are 0 and client_type is still null
C15_Witness ==
    /\ Engineered
    /\ NRows(fe_ret.df) >= 2
    /\ Col("node_id")[1] = Col("node_id")[2]
    /\ IsNa(Col("client_type")[1])
    /\ Col("cpu_usage_trend")[1] = Num(0)
    /\ Col("cpu_usage_rolling_std_2")[1] = Num(0)
    /\ Col("cpu_usage_lag_1")[1] = Num(0)
    /\ Col("cpu_usage_trend")[2] # Num(0)

\* C16: when the raw table lacks the timestamp column or the node_id column
\* (the empty DataFrame lacks both), engineer_features raises KeyError to the
\* caller, returns no table, and leaves the caller's table as it was.
C16_MissingColumnRaises ==
    (pc = "engineer_features" /\ (~Has(raw_df, "timestamp") \/ ~Has(raw_df, "node_id"))) =>
        /\ fe_ret.raised = "KeyError"
        /\ fe_ret.df = <<>>
        /\ fe_ret.raw = raw_df

\* a table with samples and a timestamp column but no node_id column
C16_Witness ==
    /\ pc = "engineer_features"
    /\ Has(raw_df, "timestamp")
    /\ ~Has(raw_df, "node_id")
    /\ NRows(raw_df) > 1
    /\ fe_ret.raised = "KeyError"

\* a timestamp of the raw table is no date: pd.to_datetime raises ValueError
BadTimestamp ==
    Has(raw_df, "timestamp") /\ \E c \in Range(Get(raw_df, "timestamp")) : ~Parsable(c)
\* the i-th interaction pair multiplies a number by a text: TypeError
InteractionRaisesAt(i) ==
    LET pair == fe_config.interaction_pairs[i]
    IN  /\ Len(pair) = 2 /\ Has(raw_df, pair[1]) /\ Has(raw_df, pair[2])
        /\ \E r \in Range(RowNumbers(raw_df)) :
              /\ Get(raw_df, pair[2])[r].t = "str"
              /\ ~IsNa(Get(raw_df, pair[1])[r]) \/ Has(fe_config.feature_defaults, pair[1])
\* the i-th threshold is no number: TypeError
ThresholdRaisesAt(i) ==
    Has(raw_df, fe_config.thresholds[i][1]) /\ fe_config.thresholds[i][2].t # "num"

\* C17: on a table holding timestamp and node_id, an error inside the
\* pipeline (a timestamp that cannot be parsed, an interaction or threshold
\* that cannot be computed) never reaches the caller: the call returns a
\* table with every raw column and one row per raw sample; after a helper's
\* error the pipeline completes without that helper's column.
C17_BestEffortTable ==
    (pc = "engineer_features" /\ Has(raw_df, "timestamp") /\ Has(raw_df, "node_id")) =>
        /\ fe_ret.raised = ""
        /\ NRows(fe_ret.df) = NRows(raw_df)
        /\ Keys(raw_df) \subseteq Keys(fe_ret.df)
        /\ BadTimestamp => fe_ret.path = "error"
        /\ ~BadTimestamp =>
              /\ fe_ret.path = "normal"
              /\ \A i \in 1..Len(fe_config.interaction_pairs) :
                    InteractionRaisesAt(i)
                        => ~Has(fe_ret.df, InteractionName(fe_config.interaction_pairs[i]))
              /\ \A i \in 1..Len(fe_config.thresholds) :
                    ThresholdRaisesAt(i)
                        => ~Has(fe_ret.df, ThresholdName(fe_config.thresholds[i][1]))

\* a table whose first timestamp is no date came back without an exception
C17_Witness ==
    /\ pc = "engineer_features"
    /\ NRows(raw_df) >= 2
    /\ BadTimestamp
    /\ fe_ret.raised = ""
    /\ fe_ret.path = "error"
    /\ NRows(fe_ret.df) = NRows(raw_df)

\* the metric columns of the raw table
RawMetrics == Keys(raw_df) \ {"timestamp", "node_id", "client_type"}

\* C18: a metric that is null in a raw sample, or absent from the raw table,
\* holds its configured default in the engineered table and is never set to
\* zero implicitly; interaction and threshold columns are computed from the
\* default-filled values.
C18_DefaultsNotZero ==
    Engineered =>
        /\ \A metric \in RawMetrics : \A r \in Range(RowNumbers(fe_ret.df)) :
              IsNa(Get(raw_df, metric)[RawRowOf(r)]) =>
                  /\ Has(fe_config.feature_defaults, metric)
                  /\ Col(metric)[r] = Get(fe_config.feature_defaults, metric)
        /\ \A i \in 1..Len(fe_config.feature_defaults) :
              LET feature == fe_config.feature_defaults[i][1]
              IN  ~Has(raw_df, feature) =>
                      /\ Has(fe_ret.df, feature)
                      /\ \A cell \in Range(Col(feature)) : cell = fe_config.feature_defaults[i][2]
        /\ \A i \in 1..Len(fe_config.interaction_pairs) :
              LET pair == fe_config.interaction_pairs[i]
              IN  (Len(pair) = 2 /\ Has(fe_ret.df, InteractionName(pair))) =>
                      \A r \in Range(RowNumbers(fe_ret.df)) :
                          Col(InteractionName(pair))[r] = Mul(Col(pair[1])[r], Col(pair[2])[r])
        /\ \A i \in 1..Len(fe_config.thresholds) :
              LET col == fe_config.thresholds[i][1]
              IN  Has(fe_ret.df, ThresholdName(col)) =>
                      \A r \in Range(RowNumbers(fe_ret.df)) :
                          Col(ThresholdName(col))[r]
                              = IF Gt(Col(col)[r], fe_config.thresholds[i][2]) THEN Num(1) ELSE Num(0)

\* C19: engineer_features has no side effect: after the call, whether it
\* returned or raised, the caller's raw table holds the columns and values it
\* held before the call.
C19_InputUntouched ==
    pc = "engineer_features" => fe_ret.raw = raw_df

\* ---- get_exog_feature_list
\* the columns engineer_features forms from the target under fe_config: the
\* target, its interaction and threshold columns, and the trend, rolling and
\* lag columns of each of these
TargetBases ==
    {target, ThresholdName(target)}
    \cup {InteractionName(fe_config.interaction_pairs[i]) :
            i \in {j \in 1..Len(fe_config.interaction_pairs) :
                      target \in Range(fe_config.interaction_pairs[j])}}
TargetDerived ==
    TargetBases
    \cup {TrendName(b) : b \in TargetBases}
    \cup {RollingMeanName(b, fe_config.rolling_windows[i]) :
            b \in TargetBases, i \in 1..Len(fe_config.rolling_windows)}
    \cup {RollingStdName(b, fe_config.rolling_windows[i]) :
            b \in TargetBases, i \in 1..Len(fe_config.rolling_windows)}
    \cup {LagName(b, fe_config.lag_periods[i]) :
            b \in TargetBases, i \in 1..Len(fe_config.lag_periods)}

\* C20: whatever the feature list and the feature-engineering configuration,
\* the feature set of the latency forecaster holds no column derived from the
\* latency target: not the target, not its trend / rolling / lag columns, not
\* an interaction or threshold column formed from it.
C20_NoTargetLeak ==
    pc = "get_exog_feature_list" =>
        \A i \in 1..Len(exog_features) : exog_features[i] \notin TargetDerived

\* ---------------------------------------------------------------------------
\* Claims about the explanation and the cost scores of a recommendation.

\* get_recommendation has returned a recommendation over k or more candidates.
RecommendedOver(k) ==
    /\ pc = "get_recommendation"
    /\ ~rec_ret.raised
    /\ Len(rec_ret.all_predictions) >= k

\* C21: for a recommendation over two or more candidates the explanation
\* contains "Recommending <recommended_node>" and "Next best is <node>", <node>
\* being the lowest-cost candidate other than the recommended one.
C21_RecommendingWording ==
    RecommendedOver(2) =>
        /\ Contains(explanation_text(rec_ret.explanation),
                    "Recommending " \o rec_ret.recommended_node)
        /\ LET other == NextBest(rec_ret.recommended_node, rec_ret.all_predictions)
           IN  /\ Len(other) = 1
               /\ Contains(explanation_text(rec_ret.explanation),
                           "Next best is " \o other[1].node_id)

\* What the optimizer returns for the nodes predicted from engineered_data
\* (predict.py:230-234).
PredictedNodes == MapSeq(OkItems(engineered_data), LAMBDA item : pred_data(item[1], item[2]))
OptimizerResult ==
    optimize_routing(MapSeq(PredictedNodes, LAMBDA p : <<p.node_id, p.failure_prob>>),
                     MapSeq(PredictedNodes, LAMBDA p : <<p.node_id, p.predicted_latency_ms>>),
                     MapSeq(PredictedNodes, LAMBDA p : p.node_id),
                     self_config)

\* C22: whenever at least one node is predicted, every entry of
\* all_predictions carries the cost score the optimizer returned for its node,
\* the recommended node is the node_id of one of the entries, and
\* recommendation_details is that entry (same node_id, same cost_score), on the
\* optimizer's normal path and on its fallback path.
C22_DetailsAreTheRecommendedEntry ==
    (pc = "get_recommendation" /\ Len(OkItems(engineered_data)) >= 1) =>
        /\ ~rec_ret.raised
        /\ rec_ret.path \in {"normal", "fallback"}
        /\ Len(rec_ret.all_predictions) = Len(OkItems(engineered_data))
        /\ \E cost_scores \in {OptimizerResult.cost_scores} :
               \A i \in 1..Len(rec_ret.all_predictions) :
                   LET p == rec_ret.all_predictions[i]
                   IN  /\ Has(cost_scores, p.node_id)
                       /\ p.cost_score = Get(cost_scores, p.node_id)
        /\ rec_ret.recommended_node \in NodeIds(rec_ret.all_predictions)
        /\ Len(rec_ret.rec_details) = 1
        /\ rec_ret.rec_details[1].node_id = rec_ret.recommended_node
        /\ \E i \in 1..Len(rec_ret.all_predictions) :
               rec_ret.all_predictions[i] = rec_ret.rec_details[1]

\* Reached: on the fallback path the recommended node
\* is not the first of several predicted nodes.
C22_Witness ==
    /\ RecommendedOver(2)
    /\ rec_ret.path = "fallback"
    /\ rec_ret.recommended_node # rec_ret.all_predictions[1].node_id
    /\ rec_ret.rec_details[1].cost_score # rec_ret.all_predictions[1].cost_score

\* optimize_routing has returned for the candidates f (failing: failure
\* probability above 0.5 and the higher latency) and h (healthy: failure
\* probability below 0.5), the only two entries of both tables, under the
\* default weights.
FailingHealthy(f, h) ==
    /\ pc = "optimize_routing"
    /\ config = DefaultConfig
    /\ NodeSet = {f, h} /\ f # h /\ Len(nodes) = 2
    /\ Keys(failure_probs) = NodeSet /\ Keys(latencies) = NodeSet
    /\ Len(latencies) = 2
    /\ 2 * Get(failure_probs, f) > ProbScale
    /\ 2 * Get(failure_probs, h) < ProbScale
    /\ Get(latencies, f) > Get(latencies, h)
One == Cost(1, 1)

PositiveWeightsCompleteTables ==
    /\ pc = "optimize_routing"
    /\ Len(nodes) > 0
    /\ config.usable /\ config.weight_failure > 0 /\ config.weight_latency > 0
    /\ NodeSet \subseteq (Keys(failure_probs) \cap Keys(latencies))
\* a has a strictly lower failure probability than b and no higher latency
Dominates(a, b) ==
    /\ Get(failure_probs, a) < Get(failure_probs, b)
    /\ Get(latencies, a) <= Get(latencies, b)

ExplanationText == explanation_text(rec_ret.explanation)
\* The entries of all_predictions other than the recommended node's.
OtherEntries ==
    {rec_ret.all_predictions[i] : i \in 1..Len(rec_ret.all_predictions)}
        \ {rec_ret.rec_details[1]}

\* C25: the explanation contains the anomaly warning clause exactly when the
\* recommended node's anomaly flag is set, and the comparison with the
\* next-best node exactly when more than one candidate was predicted; the node
\* compared against is another candidate of lowest cost score.
C25_ExplanationClauses ==
    RecommendedOver(1) =>
        \E text \in {ExplanationText} :
            /\ Contains(text, AnomalyClause) <=> rec_ret.rec_details[1].anomaly_detected
            /\ Contains(text, "faster than next best")
                   <=> Len(rec_ret.all_predictions) > 1
            /\ Len(rec_ret.all_predictions) > 1 =>
                   \E c \in OtherEntries :
                       /\ c.node_id # rec_ret.recommended_node
                       /\ \A p \in OtherEntries : ~CostLess(p.cost_score, c.cost_score)
                       /\ Contains(text, "faster than next best (" \o c.node_id \o ").")

\* Reached: three candidates, the recommended one flagged anomalous, and the
\* next best is not the first of the other two.
C25_Witness ==
    /\ RecommendedOver(3)
    /\ rec_ret.rec_details[1].anomaly_detected
    /\ Contains(ExplanationText, AnomalyClause)
    /\ \E c \in OtherEntries, p \in OtherEntries :
           /\ CostLess(c.cost_score, p.cost_score)
           /\ rec_ret.all_predictions[1] = p
           /\ Contains(ExplanationText, "faster than next best (" \o c.node_id \o ").")

\* C30: whenever the explanation says the recommended node is "N ms faster
\* than next best", N is not negative: the recommended node's predicted latency
\* is not greater than that of the node it is compared against.
C30_FasterIsNotNegative ==
    RecommendedOver(2) =>
        \A c \in OtherEntries :
            LET n == c.predicted_latency_ms - rec_ret.rec_details[1].predicted_latency_ms
            IN  Contains(ExplanationText,
                         " " \o FormatMs(n) \o "ms faster than next best ("
                             \o c.node_id \o ").")
                    => n >= 0

\* ---- POST /predict, the request body

\* C26: when the records of a /predict batch carry node_name but no node_id,
\* the node_name is used as the record's node identifier and the request
\* yields a recommendation over those nodes.
C26_NodeNameIsTheIdentifier ==
    (/\ pc = "predict_batch"
     /\ Len(batch) > 0
     /\ \A i \in 1..Len(batch) : IsNa(batch[i].node_id) /\ ~IsNa(batch[i].node_name)) =>
        /\ response.status = 200
        /\ NodeIds(response.body.all_predictions)
               \subseteq {batch[i].node_name.s : i \in 1..Len(batch)}

\* ---- the collector's cache and history

\* The nodes that have a history, and a node's history.
HistoryNodes == Keys(metrics_history)
HistoryOf(node) == Get(metrics_history, node)
Min(a, b) == IF a <= b THEN a ELSE b
\* the last k entries of s, k <= Len(s)
Newest(s, k) == SubSeq(s, Len(s) - k + 1, Len(s))
\* the entries of a response body that belong to node, in body order
EntriesOf(body, node) == SelectSeq(body, LAMBDA m : m.node_name = node)

\* C27: after any sequence of polls each node's metrics_history holds at most
\* 30 entries, the most recently appended ones of that node in append order;
\* GET /history with limit L returns, per node, the last min(L, length) of
\* them.
C27_BoundedHistory ==
    /\ \A node \in HistoryNodes :
           /\ Len(HistoryOf(node)) = Min(Len(Get(appended, node)), HistoryMaxLen)
           /\ HistoryOf(node) = Newest(Get(appended, node), Len(HistoryOf(node)))
    /\ (pc = "get_metrics_history" /\ limit >= LimitMin /\ limit <= LimitMax) =>
           /\ http_response.status = 200
           /\ \A node \in HistoryNodes :
                  EntriesOf(http_response.body, node)
                      = Newest(HistoryOf(node), Min(limit, Len(HistoryOf(node))))
           /\ \A i \in 1..Len(http_response.body) :
                  http_response.body[i].node_name \in HistoryNodes

\* Reached: a full history that has dropped its oldest entries, read with a
\* limit below its length.
C27_Witness ==
    /\ pc = "get_metrics_history" /\ limit = 2
    /\ \A node \in HistoryNodes :
           /\ Len(HistoryOf(node)) = HistoryMaxLen
           /\ Len(Get(appended, node)) > HistoryMaxLen
           /\ HistoryOf(node)[1] # Get(appended, node)[1]
    /\ Len(http_response.body) = 2 * (Len(NodeUrls) + 1)

\* C28: in every state a request handler can observe, latest_metrics_cache and
\* metrics_history hold the same node names and the cache entry of each node
\* is the last entry of its history.
C28_CacheIsLastOfHistory ==
    /\ Keys(latest_metrics_cache) = HistoryNodes
    /\ \A node \in HistoryNodes :
           /\ Len(HistoryOf(node)) > 0
           /\ Get(latest_metrics_cache, node) = HistoryOf(node)[Len(HistoryOf(node))]

\* Reached: a handler answers while a scheduled poll waits for its node
\* queries, after earlier polls have stored several entries per node.
C28_Witness ==
    /\ pc = "get_latest_metrics"
    /\ scheduled_poll.state = "awaiting"
    /\ Len(http_response.body) = Len(NodeUrls) + 1
    /\ \A node \in HistoryNodes : Len(HistoryOf(node)) >= 2

\* C29: within each node's metrics_history the timestamps are non-decreasing
\* in append order, also when the initial poll awaited at startup and a poll
\* run by the scheduler overlap.
C29_TimestampsNonDecreasing ==
    \A node \in HistoryNodes :
        \A i \in 1..Len(HistoryOf(node)), j \in 1..Len(HistoryOf(node)) :
            i < j => HistoryOf(node)[i].timestamp <= HistoryOf(node)[j].timestamp

====
